---- MODULE Spec2Model ----
(***************************************************************************)
(* Model of the tron-monitor ingestion pipeline: the BlockMonitor polling  *)
(* goroutine (processor/block_monitor), the Redis block queue              *)
(* (redis.RedisClient.PushBlockData / PopBlockData) and the BlockWorker    *)
(* loops that drain it (processor/block_processor.go), with the worker     *)
(* pool's lifecycle, the decoding of a block's transactions and the event  *)
(* and address store they write (redis.RedisClient).                       *)
(*                                                                         *)
(* Every network call (HTTP to the block source, a Redis command) is one   *)
(* step of its own, so other goroutines interleave between the calls.      *)
(***************************************************************************)
EXTENDS Integers, Sequences, FiniteSets, TLC

\* ------------------------------------------------------------------ bounds

\* Largest chain height the block source reports.
MaxHeight == 14
\* The block source reports heads 0..LowHeads and MaxHeight-1..MaxHeight, so
\* that gaps of 1, 2..10 and more than 10 all occur.
LowHeads == 4
\* Ticker firings modelled per run of the monitor.
MaxTicks == 2
\* Network failures injected per run (failures caused by a cancelled context
\* are not counted).
MaxFaults == 2
\* config.Monitor.QueueSize (validateConfig requires > 0).
QueueSize == 2
\* config.Monitor.WorkerCount (validateConfig requires > 0).
WorkerCount == 2
\* Calls of ResetStats / SetLastProcessedBlock made per run.
MaxSets == 2
\* Calls of ProcessHistoricalBlocks / SyncToLatestBlock made per run.
MaxBackfills == 1

\* ------------------------------------------------------- program constants

\* maxGap := int64(10) in processLatestBlock.
maxGap == 10
\* LTrim(ctx, listKey, 0, 9999) in SaveTransferEvent.
transferListStop == 9999
\* Defaults of usdt.min_amount and usdt.max_amount.
usdtMinAmount == 100
usdtMaxAmount == 1000000
\* len(data) below which parseTRC20TransferData sees no transfer call.
minCallLen == 74
\* Hex digits of one 32-byte argument word, of an address body (20 bytes)
\* and of the largest value strconv.ParseUint(s, 16, 64) accepts.
wordLen == 64
addrLen == 40
uint64Digits == 16
\* len(address) != 34 in isValidTronAddress.
tronAddressLen == 34

\* --------------------------------------------------------------- variables

VARIABLES
    cfg,                \* config: Monitor limits, USDT, WatchAddresses
    running,            \* bm.running
    cancelled,          \* bm.ctx is done (bm.cancel() was called)
    wg,                 \* bm.wg counter
    mu,                 \* bm.mu: "free", or "Stop" while Stop() waits in wg.Wait()
    lastProcessedBlock, \* bm.lastProcessedBlock
    processedBlocks,    \* bm.processedBlocks
    errors,             \* bm.errors
    pc,                 \* position of the polling goroutine
    tick,               \* locals of processLatestBlock
    obs,                \* what the current tick has done so far (observation)
    queue,              \* Redis list "block_queue", index 1 = head (LPUSH side)
    nextId,             \* serial of the next LPUSHed entry (observation)
    wpc,                \* position of each worker loop
    wblock,             \* the block each worker holds
    popResult,          \* what the last PopBlockData call returned
    delivered,          \* ids of the entries BRPOP has handed out, in order
    ret,                \* last return of Start()/Stop() or of a
                        \* watch-address call: [op, err]
    ticks, faults, sets,\* budgets used so far
    hist,               \* ProcessHistoricalBlocks / SyncToLatestBlock call
    conv,               \* convertHexToBase58 calls: argument and results
    bp,                 \* BlockProcessor: running, ctx, wg, mu, Stop's position
    launch,             \* workers whose `go func(w) { w.start() }` has not run
    wk,                 \* BlockWorker: running, ctx (cancel called), wg, mu
    bpStats,            \* bp.processedBlocks, bp.transfersFound, bp.errors
    wloc,               \* locals of each worker inside processBlock
    wobs,               \* what the workers have done so far (observation)
    kv,                 \* Redis string keys "transfer:<txHash>"
    lists,              \* Redis lists "transfers" and "usdt_transfers"
    addrInfo,           \* Redis string keys "address_info:<address>"
    watchSet            \* Redis set "watch_addresses"

vars == <<cfg, running, cancelled, wg, mu, lastProcessedBlock, processedBlocks,
          errors, pc, tick, obs, queue, nextId, wpc, wblock, popResult, delivered,
          ret,
          ticks, faults, sets, hist, conv,
          bp, launch, wk, bpStats, wloc, wobs, kv, lists, addrInfo, watchSet>>

monVars == <<lastProcessedBlock, processedBlocks, errors, pc, tick, obs,
             queue, nextId, ticks, faults>>
lifeVars == <<running, cancelled, wg, mu, ret, sets, hist, conv>>
workerVars == <<wpc, wblock, popResult, delivered>>
poolVars == <<bp, launch, wk>>
procVars == <<bpStats, wloc, wobs>>
storeVars == <<kv, lists, addrInfo, watchSet>>
processorVars == <<poolVars, procVars, storeVars>>

Workers == 1..WorkerCount

\* Heights the block source answers getnowblock with. 0 is the height
\* GetLatestBlock builds when the response carries no block header.
HeadChoices == (0..LowHeads) \cup ((MaxHeight - 1)..MaxHeight)

\* Limits the operator may configure (0 = not configured).
\* USDTMinAmount / USDTMaxAmount are usdt.min_amount / usdt.max_amount in
\* whole USDT.
NoLimits == [MaxBlockHeight |-> 0, StartBlockHeight |-> 0,
             USDTEnableMonitoring |-> TRUE,
             USDTMinAmount |-> usdtMinAmount, USDTMaxAmount |-> usdtMaxAmount,
             WatchAddresses |-> <<>>]
BothLimits == [MaxBlockHeight |-> MaxHeight - 1, StartBlockHeight |-> 2,
               USDTEnableMonitoring |-> TRUE,
               USDTMinAmount |-> usdtMinAmount,
               USDTMaxAmount |-> usdtMaxAmount, WatchAddresses |-> <<>>]
LowCeiling == [MaxBlockHeight |-> LowHeads - 1, StartBlockHeight |-> 0,
               USDTEnableMonitoring |-> TRUE,
               USDTMinAmount |-> usdtMinAmount,
               USDTMaxAmount |-> usdtMaxAmount, WatchAddresses |-> <<>>]
Configs == {NoLimits, BothLimits, LowCeiling}
\* usdt.enable_monitoring: false.
USDTOff == [LowCeiling EXCEPT !.USDTEnableMonitoring = FALSE]

NoTick == [head |-> 0, startBlock |-> 0, endBlock |-> 0, blockNum |-> 0,
           direct |-> FALSE, err |-> FALSE]
NoPre == [lastProcessedBlock |-> 0, processedBlocks |-> 0, errors |-> 0]
NoObs == [pre |-> NoPre, headOk |-> FALSE, checkL |-> 0, accepted |-> FALSE,
          L |-> 0, fetched |-> <<>>, enq |-> <<>>, failed |-> {}]
NoBlock == [height |-> -1, id |-> 0]
\* Locals of ProcessHistoricalBlocks / SyncToLatestBlock: pc the position
\* of the call, blockNum and endBlock the loop, ret what the call returned
\* ("nil", "interrupted", or "error" for a failed GetLatestBlock). The rest
\* observes the call: the range it was entered with, the heights
\* GetBlockByNumber was called for, the heights pushed, the heights whose
\* fetch or push failed, what SyncToLatestBlock compared, and the number
\* of calls made so far.
NoSync == [called |-> FALSE, decided |-> FALSE, latestHeight |-> 0,
           currentHeight |-> 0]
NoHist == [pc |-> "none", blockNum |-> 0, endBlock |-> 0, ret |-> "none",
           range |-> <<1, 0>>, fetched |-> <<>>, enq |-> <<>>, failed |-> {},
           sync |-> NoSync, calls |-> 0]

\* conv: the argument of the first convertHexToBase58 call and the
\* checksum the double SHA-256 gave in the last call, the string returned,
\* and what a second call returned for that string.
\* pc, hexAddr, bytes, x and answer are the position and the locals of the
\* call in progress: inside base58.Encode, x is the number still to be
\* divided and answer the digits found so far, least significant first.
NoConv == [calls |-> 0, raw |-> <<>>, sum |-> <<>>, out |-> <<>>,
           again |-> <<>>, pc |-> "none", hexAddr |-> <<>>, bytes |-> <<>>,
           x |-> <<>>, answer |-> <<>>]

Min(a, b) == IF a < b THEN a ELSE b

\* --------------------------------------------------- addresses and blocks

\* Hex addresses as the block source reports them, and the display form
\* hexToTronAddress derives from each (hex decode, double SHA-256 checksum,
\* base58): an injective table over the addresses used here.
HexAddrs == {"41aa", "41bb", "41cc", "41dd"}
\* A hex string of 22 bytes: 41, then the 21 bytes of "41aa". Its base58
\* form has 36 characters and starts with "2"; it is written "2Wide".
WideHexAddrs == {"4141aa"}
hexToTronAddress(hexAddress) ==
    CASE hexAddress = "41aa" -> "TAa"
      [] hexAddress = "41bb" -> "TBb"
      [] hexAddress = "41cc" -> "TCc"
      [] hexAddress = "41dd" -> "TDd"
      [] hexAddress = "4141aa" -> "2Wide"
DisplayAddrs == {hexToTronAddress(h) : h \in HexAddrs}

\* convertHexToBase58: the empty string and a string that already starts
\* with "T" are returned as they are; a string that does not decode as hex
\* is returned as it is too.
convertHexToBase58(hexAddr) ==
    LET convert[a \in {hexAddr}] ==
            IF a = "" THEN a
            ELSE IF a \in DisplayAddrs THEN a
            ELSE IF a \in HexAddrs \cup WideHexAddrs THEN hexToTronAddress(a)
            ELSE a
    IN convert[hexAddr]

\* config.USDT.ContractAddress.
USDTContractAddress == "TDd"

\* Strings that are no display address: the empty string, a hex address,
\* a short string that starts with "T" and a 34-character string that
\* starts with "1". Addresses are all the strings a watch-address call
\* may be given.
OtherStrings == {"", "41aa", "TShort", "1Btc"}
Addresses == DisplayAddrs \cup OtherStrings
\* len(address) and strings.HasPrefix(address, "T") of these strings (the
\* display addresses are written short, they have 34 characters).
AddressLen(address) ==
    CASE address \in DisplayAddrs -> tronAddressLen
      [] address = "" -> 0
      [] address = "41aa" -> addrLen + 2
      [] address = "TShort" -> 6
      [] address = "1Btc" -> tronAddressLen
StartsWithT(address) == address \in DisplayAddrs \cup {"TShort"}
isValidTronAddress(address) ==
    ~(AddressLen(address) # tronAddressLen \/ ~StartsWithT(address))

\* Hex text as the sequence of its digits (0..15). The hex addresses above
\* are written short: "41aa" is "41", 38 zeros and "aa".
Zeros(n) == [i \in 1..n |-> 0]
HexDigits(h) ==
    CASE h = "41aa" -> <<4, 1>> \o Zeros(addrLen - 2) \o <<10, 10>>
      [] h = "41bb" -> <<4, 1>> \o Zeros(addrLen - 2) \o <<11, 11>>
      [] h = "41cc" -> <<4, 1>> \o Zeros(addrLen - 2) \o <<12, 12>>
      [] h = "41dd" -> <<4, 1>> \o Zeros(addrLen - 2) \o <<13, 13>>
      [] h = "4141aa" -> <<4, 1, 4, 1>> \o Zeros(addrLen - 2) \o <<10, 10>>
\* The 20-byte body of a hex address (without the 41 prefix).
AddrBody(h) == SubSeq(HexDigits(h), 3, addrLen + 2)
\* The text of a digit sequence that spells one of the hex addresses.
HexText(ds) ==
    LET text[d \in {ds}] ==
            CHOOSE h \in HexAddrs \cup WideHexAddrs : HexDigits(h) = d
    IN text[ds]

\* The string operators below bind their argument as the one element of a
\* function's domain, so that a long digit sequence is computed once per
\* call.
\* strings.TrimLeft(s, "0").
TrimLeftZeros(str) ==
    LET trim[s \in {str}] ==
            IF \A i \in 1..Len(s) : s[i] = 0 THEN <<>>
            ELSE SubSeq(s, CHOOSE k \in 1..Len(s) :
                                  s[k] # 0 /\ \A j \in 1..(k - 1) : s[j] = 0,
                        Len(s))
    IN trim[str]
\* strings.Repeat("0", n - len(s)) + s when len(s) < n.
PadLeft(str, n) ==
    LET pad[s \in {str}] == IF Len(s) < n THEN Zeros(n - Len(s)) \o s ELSE s
    IN pad[str]
\* strings.HasPrefix.
HasPrefix(s, prefix) ==
    Len(s) >= Len(prefix) /\ SubSeq(s, 1, Len(prefix)) = prefix
\* The value of a hex digit sequence.
RECURSIVE HexValueOf(_, _)
HexValueOf(s, n) == IF n = 0 THEN 0 ELSE HexValueOf(s, n - 1) * 16 + s[n]
HexValue(s) == HexValueOf(s, Len(s))
\* The hex digits of a natural number.
RECURSIVE ToHex(_)
ToHex(n) == IF n = 0 THEN <<>> ELSE Append(ToHex(n \div 16), n % 16)

\* The selector of transfer(address,uint256): a9059cbb; and that of
\* transferFrom(address,address,uint256): 23b872dd.
transferSelector == <<10, 9, 0, 5, 9, 12, 11, 11>>
transferFromSelector == <<2, 3, 11, 8, 7, 2, 13, 13>>
\* A 32-byte argument word holding the digits ds, and the data of a
\* transfer call to the hex address h with the amount word w.
Word(ds) == PadLeft(ds, wordLen)
TransferData(h, w) == transferSelector \o Word(AddrBody(h)) \o w
\* Amount words: 2^64 (17 digits) and 2^256 - 1.
TwoTo64 == Word(<<1>> \o Zeros(uint64Digits))
MaxWord == [i \in 1..wordLen |-> 15]

\* ------------------------------------------ the address codec, by character

\* A string as the sequence of its characters. A character of the base58
\* alphabet "123456789ABCDEFGHJKLMNPQRSTUVWXYZabcdefghijkmnopqrstuvwxyz" is
\* its index there (0..57): "T" is 26, "x" is 55, "A".."F" are 9..14 and
\* "a".."f" are 33..38. "0", which the alphabet has not, is 58.
chT == 26
chx == 55
ch0 == 58
\* base58.Encode divides by 58; a byte has 256 values.
base58Radix == 58
byteRadix == 256

\* The value of a hex character, -1 for any other character.
HexOf(c) ==
    IF c = ch0 THEN 0
    ELSE IF c \in 0..8 THEN c + 1
    ELSE IF c \in 9..14 THEN c + 1
    ELSE IF c \in 33..38 THEN c - 23
    ELSE -1
\* The (lower case) character of a hex digit, and the text of a digit
\* sequence.
CharOf(d) == IF d = 0 THEN ch0 ELSE IF d <= 9 THEN d - 1 ELSE d + 23
HexChars(ds) == [i \in 1..Len(ds) |-> CharOf(ds[i])]

\* strings.TrimPrefix(hexAddr, "0x").
TrimPrefix0x(str) ==
    LET trim[s \in {str}] ==
            IF Len(s) >= 2 /\ s[1] = ch0 /\ s[2] = chx
            THEN SubSeq(s, 3, Len(s))
            ELSE s
    IN trim[str]

\* hex.DecodeString: an error for an odd length or a character that is no
\* hex digit, the bytes otherwise.
hexDecodeString(str) ==
    LET decode[s \in {str}] ==
            IF Len(s) % 2 # 0 \/ \E i \in 1..Len(s) : HexOf(s[i]) < 0
            THEN [ok |-> FALSE, bytes |-> <<>>]
            ELSE [ok |-> TRUE,
                  bytes |-> [i \in 1..(Len(s) \div 2) |->
                                HexOf(s[2 * i - 1]) * 16 + HexOf(s[2 * i])]]
    IN decode[str]

\* x.DivMod(x, bigRadix, mod): the long division of a big-endian byte
\* sequence by 58, as the quotient (of the same length) and the remainder
\* after the bytes 1..i. The result for the bytes before is taken as the
\* one element of a set, so that it is computed once.
TheOne(S) == CHOOSE x \in S : TRUE
DivStep(p, b) ==
    [q |-> Append(p.q, (p.r * byteRadix + b) \div base58Radix),
     r |-> (p.r * byteRadix + b) % base58Radix]
RECURSIVE DivMod58(_, _)
DivMod58(bytes, i) ==
    IF i = 0 THEN [q |-> <<>>, r |-> 0]
    ELSE TheOne({DivStep(p, bytes[i]) : p \in {DivMod58(bytes, i - 1)}})
\* The bytes spell zero: x.Cmp(bigZero) > 0 in base58.Encode, negated.
IsZero(x) == \A i \in 1..Len(x) : x[i] = 0
\* The leading zero bytes of b, for each of which base58.Encode writes "1".
LeadingZeros(bytes) ==
    Cardinality({k \in 1..Len(bytes) : \A i \in 1..k : bytes[i] = 0})
Reverse(s) == [i \in 1..Len(s) |-> s[Len(s) + 1 - i]]

\* A test that finds no string empty.
NeverEmpty(hexAddr) == FALSE
\* len(hexAddr) == 0.
IsEmptyText(hexAddr) == Len(hexAddr) = 0

\* A float64 amount, kept exactly as whole units and millionths.
Whole(a) == [units |-> a, micro |-> 0]
\* amount / 1e6.
ScaleNone(a) == [units |-> a, micro |-> 0]
Scale6(a) == [units |-> a \div 1000000, micro |-> a % 1000000]

\* models.Contract after json.Unmarshal. valid: Parameter is a map with a
\* map under "value". owner, to, amount, asset, caddr and data are what the
\* type assertions valueData["..."].(string) / .(float64) yield: the value
\* of the field, or the zero value when the field is absent or of another
\* type; missing names the fields for which that happened. data is the
\* sequence of the hex digits of the data string.
TransferContract(owner, to, amount) ==
    [type |-> "TransferContract", valid |-> TRUE, owner |-> owner, to |-> to,
     amount |-> amount, asset |-> "", caddr |-> "", data |-> <<>>,
     missing |-> {}]
TransferAssetContract(owner, to, amount, asset) ==
    [type |-> "TransferAssetContract", valid |-> TRUE, owner |-> owner,
     to |-> to, amount |-> amount, asset |-> asset, caddr |-> "",
     data |-> <<>>, missing |-> {}]
TriggerSmartContract(owner, caddr, data) ==
    [type |-> "TriggerSmartContract", valid |-> TRUE, owner |-> owner,
     to |-> "", amount |-> 0, asset |-> "", caddr |-> caddr,
     data |-> data, missing |-> {}]
Malformed(c) == [c EXCEPT !.valid = FALSE]
\* The contract c with the parameter f absent (or of the wrong type).
Without(c, f) ==
    LET m == c.missing \cup {f}
    IN CASE f = "owner_address" -> [c EXCEPT !.owner = "", !.missing = m]
         [] f = "to_address" -> [c EXCEPT !.to = "", !.missing = m]
         [] f = "amount" -> [c EXCEPT !.amount = 0, !.missing = m]
         [] f = "asset_name" -> [c EXCEPT !.asset = "", !.missing = m]
         [] f = "contract_address" -> [c EXCEPT !.caddr = "", !.missing = m]
         [] f = "data" -> [c EXCEPT !.data = <<>>, !.missing = m]

\* models.Transaction: TxID and RawData.Contract.
Transaction(txID, contract) == [txID |-> txID, contract |-> contract]

\* blockData.Block.Trans of the block the source serves at each height;
\* hasTrans = FALSE when the response carries no "transactions" (Trans is
\* nil after the JSON round trip through the queue).
\*   1: two transactions with one TRX transfer each
\*   2: one transaction with two TRX transfers
\*   3: a TRC10 and a TRC20 transfer from "TBb" to "TCc", a malformed
\*      contract and a USDT transfer from "TCc" to "TBb"; then a TRC10
\*      transfer from "TAa" and a TRX transfer from "TCc" to "TBb"
\*   4: one transaction with one TRX transfer
\*   6: contracts with an absent parameter: a TRX transfer without
\*      to_address followed by a complete one; a TRC10 transfer without
\*      amount, a TRC20 transfer without owner_address, a TRX transfer
\*      without amount
\*   7: TRC20 transfer calls from "TBb" to "TCc": of 9, of 150 USDT, of
\*      2^64, of 2^256 - 1 and of 0
\*   8: TriggerSmartContract data that is no transfer call: empty, 73
\*      digits of a transfer call, a transferFrom call, 73 digits sent to
\*      the USDT contract; then data of 74 digits (the amount word is cut
\*      short), a TRX transfer and a complete TRC20 transfer
\*   9: TRC20 transfer calls from "TBb" whose destination word holds the
\*      21 bytes of "41aa" (the high 12 bytes are not zero), and the 20
\*      bytes of "41cc"
\*   others: no transactions
ChainBlock(height) ==
    CASE height = 1 ->
           [hasTrans |-> TRUE, trans |-> <<
              Transaction("t1", <<TransferContract("41aa", "41bb", 5000000)>>),
              Transaction("t2", <<TransferContract("41bb", "41aa", 1500000)>>)>>]
      [] height = 2 ->
           [hasTrans |-> TRUE, trans |-> <<
              Transaction("t3", <<TransferContract("41aa", "41bb", 5000000),
                                  TransferContract("41cc", "41bb", 250000)>>)>>]
      [] height = 3 ->
           [hasTrans |-> TRUE, trans |-> <<
              Transaction("t4", <<
                 TransferAssetContract("41bb", "41cc", 7, "token"),
                 TriggerSmartContract("41bb", "41cc",
                     TransferData("41cc", Word(ToHex(9)))),
                 Malformed(TransferContract("41aa", "41bb", 1)),
                 TriggerSmartContract("41cc", "41dd",
                     TransferData("41bb", Word(ToHex(2000000))))>>),
              Transaction("t5", <<
                 TransferAssetContract("41aa", "41cc", 3, "token"),
                 TransferContract("41cc", "41bb", 1000000)>>)>>]
      [] height = 4 ->
           [hasTrans |-> TRUE, trans |-> <<
              Transaction("t6", <<TransferContract("41cc", "41bb", 5000000)>>)>>]
      [] height = 6 ->
           [hasTrans |-> TRUE, trans |-> <<
              Transaction("t7", <<
                 Without(TransferContract("41aa", "41bb", 5000000),
                         "to_address"),
                 TransferContract("41cc", "41bb", 250000)>>),
              Transaction("t8", <<
                 Without(TransferAssetContract("41bb", "41cc", 7, "token"),
                         "amount"),
                 Without(TriggerSmartContract("41bb", "41cc",
                            TransferData("41cc", Word(ToHex(9)))),
                         "owner_address"),
                 Without(TransferContract("41aa", "41bb", 5000000),
                         "amount")>>)>>]
      [] height = 7 ->
           [hasTrans |-> TRUE, trans |-> <<
              Transaction("t9", <<
                 TriggerSmartContract("41bb", "41cc",
                     TransferData("41cc", Word(ToHex(9)))),
                 TriggerSmartContract("41bb", "41dd",
                     TransferData("41cc", Word(ToHex(150000000)))),
                 TriggerSmartContract("41bb", "41cc",
                     TransferData("41cc", TwoTo64)),
                 TriggerSmartContract("41bb", "41cc",
                     TransferData("41cc", MaxWord)),
                 TriggerSmartContract("41bb", "41cc",
                     TransferData("41cc", Word(<<>>)))>>)>>]
      [] height = 8 ->
           [hasTrans |-> TRUE, trans |-> <<
              Transaction("t10", <<
                 TriggerSmartContract("41bb", "41cc", <<>>),
                 TriggerSmartContract("41bb", "41cc",
                     SubSeq(TransferData("41cc", Word(ToHex(9))), 1,
                            minCallLen - 1)),
                 TriggerSmartContract("41bb", "41cc",
                     transferFromSelector \o Word(AddrBody("41bb"))
                     \o Word(AddrBody("41cc")) \o Word(ToHex(9))),
                 TriggerSmartContract("41bb", "41dd",
                     SubSeq(TransferData("41cc", Word(ToHex(9))), 1,
                            minCallLen - 1)),
                 TriggerSmartContract("41bb", "41cc",
                     SubSeq(TransferData("41cc", Word(ToHex(9))), 1,
                            minCallLen)),
                 TransferContract("41cc", "41bb", 1000000),
                 TriggerSmartContract("41bb", "41cc",
                     TransferData("41cc", Word(ToHex(9))))>>)>>]
      [] height = 9 ->
           [hasTrans |-> TRUE, trans |-> <<
              Transaction("t11", <<
                 TriggerSmartContract("41bb", "41cc",
                     transferSelector \o Word(HexDigits("41aa"))
                     \o Word(ToHex(9))),
                 TriggerSmartContract("41bb", "41cc",
                     TransferData("41cc", Word(ToHex(9))))>>)>>]
      [] OTHER -> [hasTrans |-> FALSE, trans |-> <<>>]
TxIDs == {"t1", "t2", "t3", "t4", "t5", "t6", "t7", "t8", "t9", "t10",
          "t11"}

\* models.TransferEvent (the fields the decoder sets per token type);
\* NoEvent stands for a key that does not exist.
NoEvent == [source |-> "", destination |-> "", amount |-> Whole(0),
            fee |-> 0, txHash |-> "", blockHeight |-> 0, tokenType |-> "",
            assetName |-> "", contractAddress |-> "", isUSDT |-> FALSE]
\* models.WatchAddress under "address_info:<address>"; exists = FALSE
\* stands for a key that does not exist (GET answers redis.Nil).
NoInfo == [exists |-> FALSE, transferCount |-> 0]

\* Locals of processBlock / extractTransfers / SaveTransferEvent:
\* tx, ci index the transaction and contract being decoded, watch is
\* watchAddressSet, upd the addresses updateAddressStats is still to be
\* called for, info the record UpdateAddressStats has read, transfers the
\* events collected, si the index of the event being saved, reg the value
\* a counter increment has loaded, err whether processBlock returned an
\* error. origin, txTried, txFailed, saveTried and saved are observations:
\* the (tx, ci) each collected event came from, the transactions
\* extractTransfers was called for, those it returned an error for, the
\* events SaveTransferEvent was called for, the indices of those its SET
\* succeeded for.
NoLocals == [tx |-> 0, ci |-> 0, watch |-> {}, upd |-> <<>>, info |-> NoInfo,
             transfers |-> <<>>, si |-> 0, reg |-> 0, err |-> FALSE,
             origin |-> <<>>, txTried |-> <<>>, txFailed |-> {},
             saveTried |-> <<>>, saved |-> {}]
NoStats == [processedBlocks |-> 0, transfersFound |-> 0, errors |-> 0]
NoWorkerObs == [persisted |-> 0, decodeFailures |-> 0, persistFailures |-> 0,
                statUpdates |-> [a \in Addresses |-> 0]]

\* ------------------------------------------------------------- Redis lists

\* LPUSH key v: the new element becomes the head of the list.
LPushTail(list, v) == Append(list, v)
LPush(list, v) == <<v>> \o list

\* LTRIM key start stop (0-based, inclusive, start = 0 here).
LTrim(list, start, stop) == SubSeq(list, start + 1, Min(stop + 1, Len(list)))

\* BRPOP key: the element at the tail of the list.
RPopValue(list) == list[Len(list)]
RPopRest(list) == SubSeq(list, 1, Len(list) - 1)

\* json.Marshal(blockData) / json.Unmarshal into models.BlockData: the queue
\* holds the text, modelled as the record of its JSON fields.
MarshalBlock(b) == [height |-> b.height, id |-> b.id]
UnmarshalBlock(s) == [height |-> s.height, id |-> s.id]

\* ---------------------------------------------------------------- network

\* One network call with outcome ok. An HTTP request on a cancelled context
\* always fails; a Redis command on a cancelled context may still complete.
\* Failures on a live context are drawn from the fault budget.
NetCall(ok, http) ==
    /\ (http /\ cancelled) => ~ok
    /\ (~ok /\ ~cancelled) => faults < MaxFaults
    /\ faults' = IF ~ok /\ ~cancelled THEN faults + 1 ELSE faults

\* ------------------------------------------------------------------- Init

InitBlockMonitor ==
    /\ running = FALSE
    /\ cancelled = FALSE
    /\ wg = 0
    /\ mu = "free"
    /\ lastProcessedBlock = 0
    /\ processedBlocks = 0
    /\ errors = 0
    /\ pc = "none"
    /\ tick = NoTick
    /\ obs = NoObs
    /\ popResult = "none"
    /\ delivered = <<>>
    /\ ret = [op |-> "none", err |-> FALSE]
    /\ ticks = 0
    /\ faults = 0
    /\ sets = 0
    /\ hist = NoHist
    /\ conv = NoConv

\* The queue after the blocks of the heights hs were pushed in that order.
QueueOf(hs) ==
    [i \in 1..Len(hs) |->
        MarshalBlock([height |-> hs[Len(hs) + 1 - i], id |-> Len(hs) + 1 - i])]
Enqueued(hs) ==
    /\ queue = QueueOf(hs)
    /\ nextId = Len(hs) + 1

InitMonitor == InitBlockMonitor /\ Enqueued(<<>>)

\* NewBlockProcessor: the workers exist, no goroutine runs.
InitPool ==
    /\ bp = [running |-> FALSE, cancelled |-> FALSE, wg |-> 0, mu |-> "free",
             i |-> 0, ret |-> [op |-> "none", err |-> FALSE]]
    /\ launch = {}
    /\ wk = [w \in Workers |-> [running |-> FALSE, cancelled |-> FALSE,
                                 wg |-> 0, mu |-> "free"]]
    /\ wpc = [w \in Workers |-> "none"]
    /\ wblock = [w \in Workers |-> NoBlock]
    /\ wloc = [w \in Workers |-> NoLocals]
    /\ bpStats = NoStats
    /\ wobs = NoWorkerObs

\* The pool after BlockProcessor.Start() once the launcher goroutines of
\* the workers in S have run w.start(): their loops are about to call
\* PopBlockData, the other launchers have not been scheduled yet.
PoolStartedWith(S) ==
    /\ bp = [running |-> TRUE, cancelled |-> FALSE,
             wg |-> WorkerCount - Cardinality(S), mu |-> "free",
             i |-> 0, ret |-> [op |-> "Start", err |-> FALSE]]
    /\ launch = Workers \ S
    /\ wk = [w \in Workers |-> [running |-> w \in S, cancelled |-> FALSE,
                                 wg |-> IF w \in S THEN 1 ELSE 0,
                                 mu |-> "free"]]
    /\ wpc = [w \in Workers |-> IF w \in S THEN "pop" ELSE "none"]
    /\ wblock = [w \in Workers |-> NoBlock]
    /\ wloc = [w \in Workers |-> NoLocals]
    /\ bpStats = NoStats
    /\ wobs = NoWorkerObs
InitPoolStarted == PoolStartedWith(Workers)

\* An empty event store.
EmptyStore ==
    /\ kv = [t \in TxIDs |-> NoEvent]
    /\ lists = [transfers |-> <<>>, usdt_transfers |-> <<>>]
    /\ addrInfo = [a \in Addresses |-> NoInfo]
\* An empty event store and no watched address.
InitStore ==
    /\ EmptyStore
    /\ watchSet = {}

InitState == InitMonitor /\ InitPool /\ InitStore

Init == cfg \in Configs /\ InitState

\* ------------------------------------------------------ BlockMonitor.Start

Start ==
    /\ mu = "free"
    /\ IF running
       THEN /\ ret' = [op |-> "Start", err |-> TRUE]
            /\ UNCHANGED <<running, wg, pc>>
       ELSE /\ running' = TRUE
            /\ wg' = wg + 1
            /\ pc' = "select"
            /\ ret' = [op |-> "Start", err |-> FALSE]
    /\ UNCHANGED <<cfg, cancelled, mu, lastProcessedBlock, processedBlocks,
                   errors, tick, obs, queue, nextId, ticks, faults, sets, hist,
                   conv>>
    /\ UNCHANGED workerVars
    /\ UNCHANGED processorVars

\* ------------------------------------------------------- BlockMonitor.Stop

\* Stop() up to wg.Wait(): it returns the error at once when not running.
StopBegin ==
    /\ mu = "free"
    /\ IF ~running
       THEN /\ ret' = [op |-> "Stop", err |-> TRUE]
            /\ UNCHANGED <<running, cancelled, mu>>
       ELSE /\ running' = FALSE
            /\ cancelled' = TRUE
            /\ mu' = "Stop"
            /\ UNCHANGED ret
    /\ UNCHANGED <<cfg, wg, pc, sets, hist,
                   conv>>
    /\ UNCHANGED <<lastProcessedBlock, processedBlocks, errors, tick, obs,
                   queue, nextId, ticks, faults>>
    /\ UNCHANGED workerVars
    /\ UNCHANGED processorVars

\* wg.Wait() returns once the polling goroutine has called wg.Done().
StopReturnNoWait ==
    /\ mu = "Stop"
    /\ mu' = "free"
    /\ ret' = [op |-> "Stop", err |-> FALSE]
    /\ UNCHANGED <<cfg, running, cancelled, wg, sets, hist,
                   conv>>
    /\ UNCHANGED monVars
    /\ UNCHANGED workerVars
    /\ UNCHANGED processorVars

StopReturn ==
    /\ mu = "Stop"
    /\ wg = 0
    /\ mu' = "free"
    /\ ret' = [op |-> "Stop", err |-> FALSE]
    /\ UNCHANGED <<cfg, running, cancelled, wg, sets, hist,
                   conv>>
    /\ UNCHANGED monVars
    /\ UNCHANGED workerVars
    /\ UNCHANGED processorVars

\* ------------------------------------------- BlockMonitor.monitorBlocks

\* select: case <-ticker.C. Go picks among the ready cases at random, so a
\* tick can be taken even when the context is already done.
MonSelectTick ==
    /\ pc = "select"
    /\ ticks < MaxTicks
    /\ ticks' = ticks + 1
    /\ pc' = "head"
    /\ tick' = NoTick
    /\ obs' = [NoObs EXCEPT !.pre =
                  [lastProcessedBlock |-> lastProcessedBlock,
                   processedBlocks |-> processedBlocks,
                   errors |-> errors]]
    /\ UNCHANGED <<lastProcessedBlock, processedBlocks, errors, queue, nextId,
                   faults, cfg>>
    /\ UNCHANGED lifeVars
    /\ UNCHANGED workerVars
    /\ UNCHANGED processorVars

\* select: case <-bm.ctx.Done(): return, then the deferred bm.wg.Done().
MonSelectDone ==
    /\ pc = "select"
    /\ cancelled
    /\ pc' = "none"
    /\ wg' = wg - 1
    /\ UNCHANGED <<cfg, running, cancelled, mu, ret, sets, hist,
                   conv>>
    /\ UNCHANGED <<lastProcessedBlock, processedBlocks, errors, tick, obs,
                   queue, nextId, ticks, faults>>
    /\ UNCHANGED workerVars
    /\ UNCHANGED processorVars

\* A loop that does not count the error.
CountNothing(n, err) == n
\* if err != nil { bm.errors++ }.
CountError(n, err) == IF err THEN n + 1 ELSE n

\* processLatestBlock returned: if err != nil { bm.errors++ }. Its locals
\* are gone.
MonReturn ==
    /\ pc = "ret"
    /\ errors' = CountError(errors, tick.err)
    /\ tick' = NoTick
    /\ obs' = NoObs
    /\ pc' = "select"
    /\ UNCHANGED <<lastProcessedBlock, processedBlocks, queue, nextId,
                   ticks, faults, cfg>>
    /\ UNCHANGED lifeVars
    /\ UNCHANGED workerVars
    /\ UNCHANGED processorVars

\* --------------------------------------- BlockMonitor.processLatestBlock

\* bm.httpClient.GetLatestBlock(bm.ctx)
MonGetLatestBlock ==
    /\ pc = "head"
    /\ \E ok \in BOOLEAN :
          /\ NetCall(ok, TRUE)
          /\ IF ok
             THEN \E h \in HeadChoices :
                     /\ tick' = [tick EXCEPT !.head = h]
                     /\ obs' = [obs EXCEPT !.headOk = TRUE]
                     /\ pc' = "check"
             ELSE /\ tick' = [tick EXCEPT !.err = TRUE]
                  /\ obs' = obs
                  /\ pc' = "ret"
    /\ UNCHANGED <<lastProcessedBlock, processedBlocks, errors, queue, nextId,
                   ticks, cfg>>
    /\ UNCHANGED lifeVars
    /\ UNCHANGED workerVars
    /\ UNCHANGED processorVars

\* The three early returns: not a new block, above the ceiling, below the
\* floor.
HeadRejectedNoFloor(height, last, c) ==
    \/ height <= last
    \/ c.MaxBlockHeight > 0 /\ height > c.MaxBlockHeight
HeadRejected(height, last, c) ==
    \/ height <= last
    \/ c.MaxBlockHeight > 0 /\ height > c.MaxBlockHeight
    \/ c.StartBlockHeight > 0 /\ height < c.StartBlockHeight

MonCheck ==
    /\ pc = "check"
    /\ IF HeadRejected(tick.head, lastProcessedBlock, cfg)
       THEN /\ pc' = "ret"
            /\ obs' = [obs EXCEPT !.checkL = lastProcessedBlock]
       ELSE /\ pc' = "range"
            /\ obs' = [obs EXCEPT !.checkL = lastProcessedBlock,
                                  !.accepted = TRUE]
    /\ UNCHANGED <<lastProcessedBlock, processedBlocks, errors, tick, queue,
                   nextId, ticks, faults, cfg>>
    /\ UNCHANGED lifeVars
    /\ UNCHANGED workerVars
    /\ UNCHANGED processorVars

\* if gap > maxGap { startBlock = endBlock - maxGap + 1 }
ClampStartOffByOne(startBlock, endBlock) ==
    IF endBlock - startBlock + 1 > maxGap THEN endBlock - maxGap
    ELSE startBlock
ClampStart(startBlock, endBlock) ==
    IF endBlock - startBlock + 1 > maxGap THEN endBlock - maxGap + 1
    ELSE startBlock

\* startBlock := bm.lastProcessedBlock + 1; endBlock := blockData.Height;
\* if startBlock < endBlock { ...range... } else { ...push the head... }
MonRange ==
    /\ pc = "range"
    /\ LET s == lastProcessedBlock + 1
           e == tick.head
       IN IF s < e
          THEN /\ tick' = [tick EXCEPT !.startBlock = ClampStart(s, e),
                                       !.endBlock = e,
                                       !.blockNum = ClampStart(s, e)]
               /\ pc' = "fetch"
          ELSE /\ tick' = [tick EXCEPT !.startBlock = s, !.endBlock = e,
                                       !.direct = TRUE]
               /\ pc' = "push"
    /\ obs' = [obs EXCEPT !.L = lastProcessedBlock]
    /\ UNCHANGED <<lastProcessedBlock, processedBlocks, errors, queue, nextId,
                   ticks, faults, cfg>>
    /\ UNCHANGED lifeVars
    /\ UNCHANGED workerVars
    /\ UNCHANGED processorVars

\* `continue` after a failed fetch or push, and the loop's blockNum++.
AbortRange(t) == [t EXCEPT !.blockNum = t.endBlock + 1]
SkipHeight(t) == [t EXCEPT !.blockNum = @ + 1]
NextHeight(t) == [t EXCEPT !.blockNum = @ + 1]
LoopPc(t) == IF t.blockNum <= t.endBlock THEN "fetch" ELSE "write"

\* bm.httpClient.GetBlockByNumber(bm.ctx, blockNum)
MonFetch ==
    /\ pc = "fetch"
    /\ \E ok \in BOOLEAN :
          /\ NetCall(ok, TRUE)
          /\ IF ok
             THEN /\ tick' = tick
                  /\ obs' = [obs EXCEPT !.fetched = Append(@, tick.blockNum)]
                  /\ pc' = "push"
             ELSE /\ tick' = SkipHeight(tick)
                  /\ obs' = [obs EXCEPT !.fetched = Append(@, tick.blockNum),
                                        !.failed = @ \cup {tick.blockNum}]
                  /\ pc' = LoopPc(tick')
    /\ UNCHANGED <<lastProcessedBlock, processedBlocks, errors, queue, nextId,
                   ticks, cfg>>
    /\ UNCHANGED lifeVars
    /\ UNCHANGED workerVars
    /\ UNCHANGED processorVars

\* PushBlockData, first command: r.client.LPush(ctx, key, data). In the
\* range branch a failure is skipped; for the head block it ends the tick
\* with an error.
MonPush ==
    /\ pc = "push"
    /\ LET h == IF tick.direct THEN tick.head ELSE tick.blockNum
       IN \E ok \in BOOLEAN :
          /\ NetCall(ok, FALSE)
          /\ IF ok
             THEN /\ queue' = LPush(queue, MarshalBlock([height |-> h,
                                                         id |-> nextId]))
                  /\ nextId' = nextId + 1
                  /\ obs' = [obs EXCEPT !.enq = Append(@, h)]
                  /\ tick' = tick
                  /\ pc' = "trim"
             ELSE /\ UNCHANGED <<queue, nextId>>
                  /\ obs' = [obs EXCEPT !.failed = @ \cup {h}]
                  /\ IF tick.direct
                     THEN /\ tick' = [tick EXCEPT !.err = TRUE]
                          /\ pc' = "ret"
                     ELSE /\ tick' = SkipHeight(tick)
                          /\ pc' = LoopPc(tick')
    /\ UNCHANGED <<lastProcessedBlock, processedBlocks, errors, ticks, cfg>>
    /\ UNCHANGED lifeVars
    /\ UNCHANGED workerVars
    /\ UNCHANGED processorVars

\* PushBlockData, second command: r.client.LTrim(ctx, key, 0, QueueSize-1),
\* whose result is not looked at; PushBlockData then returns nil. In the
\* range branch bm.processedBlocks++ follows.
MonTrim ==
    /\ pc = "trim"
    /\ \E ok \in BOOLEAN :
          /\ NetCall(ok, FALSE)
          /\ queue' = IF ok THEN LTrim(queue, 0, QueueSize - 1) ELSE queue
    /\ IF tick.direct
       THEN /\ tick' = tick
            /\ pc' = "write"
            /\ UNCHANGED processedBlocks
       ELSE /\ tick' = NextHeight(tick)
            /\ pc' = LoopPc(tick')
            /\ processedBlocks' = processedBlocks + 1
    /\ UNCHANGED <<lastProcessedBlock, errors, obs, nextId, ticks, cfg>>
    /\ UNCHANGED lifeVars
    /\ UNCHANGED workerVars
    /\ UNCHANGED processorVars

\* bm.lastProcessedBlock = blockData.Height; bm.processedBlocks++
NewFrontierStart(t) == t.startBlock
NewFrontier(t) == t.head

MonWrite ==
    /\ pc = "write"
    /\ lastProcessedBlock' = NewFrontier(tick)
    /\ processedBlocks' = processedBlocks + 1
    /\ pc' = "ret"
    /\ UNCHANGED <<errors, tick, obs, queue, nextId, ticks, faults, cfg>>
    /\ UNCHANGED lifeVars
    /\ UNCHANGED workerVars
    /\ UNCHANGED processorVars

\* The steps of a tick, and all steps of the goroutine.
PollNext ==
    \/ MonSelectTick
    \/ MonGetLatestBlock
    \/ MonCheck
    \/ MonRange
    \/ MonFetch
    \/ MonPush
    \/ MonTrim
    \/ MonWrite
    \/ MonReturn

MonitorNext == PollNext \/ MonSelectDone

\* ------------------------------------- BlockProcessor.Start / Stop

\* w.ctx is a child of bp.ctx: it is done once bp.cancel() or w.cancel()
\* has been called.
WorkerCtxDone(w) == bp.cancelled \/ wk[w].cancelled

\* BlockProcessor.Start: refuses when running; otherwise one launcher
\* goroutine per worker is started (bp.wg.Add(1) each), which will call
\* w.start() when it is scheduled.
BpStart ==
    /\ bp.mu = "free"
    /\ IF bp.running
       THEN /\ bp' = [bp EXCEPT !.ret = [op |-> "Start", err |-> TRUE]]
            /\ UNCHANGED launch
       ELSE /\ bp' = [bp EXCEPT !.running = TRUE,
                                !.wg = @ + WorkerCount,
                                !.ret = [op |-> "Start", err |-> FALSE]]
            /\ launch' = Workers
    /\ UNCHANGED <<wk, procVars, storeVars>>
    /\ UNCHANGED <<cfg, monVars, lifeVars, workerVars>>

\* BlockWorker.start under w.mu: nothing when w.running; otherwise
\* w.running = true, w.wg.Add(1) and the loop goroutine is started.
workerStartAgain(k) == [k EXCEPT !.running = TRUE, !.wg = @ + 1]
workerStart(k) ==
    IF k.running THEN k ELSE [k EXCEPT !.running = TRUE, !.wg = @ + 1]

\* A launcher goroutine runs: w.start(), then bp.wg.Done().
Launch(w) ==
    /\ w \in launch
    /\ wk[w].mu = "free"
    /\ wk' = [wk EXCEPT ![w] = workerStart(@)]
    /\ wpc' = [wpc EXCEPT ![w] = IF wk'[w].wg > wk[w].wg THEN "pop" ELSE @]
    /\ launch' = launch \ {w}
    /\ bp' = [bp EXCEPT !.wg = @ - 1]
    /\ UNCHANGED <<wblock, popResult, delivered, procVars, storeVars>>
    /\ UNCHANGED <<cfg, monVars, lifeVars>>

\* BlockProcessor.Stop up to the loop over the workers: refuses when not
\* running; otherwise bp.running = false and bp.cancel(); i is the worker
\* the loop will call stop() on next.
BpStopBegin ==
    /\ bp.mu = "free"
    /\ IF ~bp.running
       THEN bp' = [bp EXCEPT !.ret = [op |-> "Stop", err |-> TRUE]]
       ELSE bp' = [bp EXCEPT !.running = FALSE, !.cancelled = TRUE,
                            !.mu = "Stop", !.i = 1]
    /\ UNCHANGED <<launch, wk, procVars, storeVars>>
    /\ UNCHANGED <<cfg, monVars, lifeVars, workerVars>>

\* BlockWorker.stop under w.mu: nothing when not w.running; otherwise
\* w.running = false, w.cancel() and it waits in w.wg.Wait().
workerStop(k) ==
    IF ~k.running THEN k
    ELSE [k EXCEPT !.running = FALSE, !.cancelled = TRUE, !.mu = "stop"]

BpStopWorker ==
    /\ bp.mu = "Stop"
    /\ bp.i \in Workers
    /\ wk[bp.i].mu = "free"
    /\ wk' = [wk EXCEPT ![bp.i] = workerStop(@)]
    /\ bp' = [bp EXCEPT !.i = IF wk'[bp.i].mu = "stop" THEN @ ELSE @ + 1]
    /\ UNCHANGED <<launch, procVars, storeVars>>
    /\ UNCHANGED <<cfg, monVars, lifeVars, workerVars>>

\* w.wg.Wait() returns once the worker's loop goroutine has returned.
BpStopWorkerReturn ==
    /\ bp.mu = "Stop"
    /\ bp.i \in Workers
    /\ wk[bp.i].mu = "stop"
    /\ wk[bp.i].wg = 0
    /\ wk' = [wk EXCEPT ![bp.i].mu = "free"]
    /\ bp' = [bp EXCEPT !.i = @ + 1]
    /\ UNCHANGED <<launch, procVars, storeVars>>
    /\ UNCHANGED <<cfg, monVars, lifeVars, workerVars>>

\* bp.wg.Wait() returns once every launcher goroutine has returned.
BpStopReturn ==
    /\ bp.mu = "Stop"
    /\ bp.i = WorkerCount + 1
    /\ bp.wg = 0
    /\ bp' = [bp EXCEPT !.mu = "free", !.i = 0,
                        !.ret = [op |-> "Stop", err |-> FALSE]]
    /\ UNCHANGED <<launch, wk, procVars, storeVars>>
    /\ UNCHANGED <<cfg, monVars, lifeVars, workerVars>>

PoolNext ==
    \/ BpStart
    \/ \E w \in Workers : Launch(w)
    \/ BpStopBegin
    \/ BpStopWorker
    \/ BpStopWorkerReturn
    \/ BpStopReturn

\* ------------------------------------------ BlockWorker.processBlocks

\* select { case <-w.ctx.Done(): return; default: } at the top of the loop,
\* with the context done: the loop goroutine returns (w.wg.Done()).
WorkerExit(w) ==
    /\ wpc[w] = "pop"
    /\ WorkerCtxDone(w)
    /\ wpc' = [wpc EXCEPT ![w] = "none"]
    /\ wk' = [wk EXCEPT ![w].wg = @ - 1]
    /\ UNCHANGED <<wblock, popResult, delivered>>
    /\ UNCHANGED <<bp, launch, procVars, storeVars>>
    /\ UNCHANGED <<cfg, monVars, lifeVars>>

\* A Redis command issued by a worker (on the worker's own context).
WorkerCall(ok) ==
    /\ ~ok => faults < MaxFaults
    /\ faults' = IF ok THEN faults ELSE faults + 1

\* RedisClient.PopBlockData: BRPOP with a 5 s timeout is one atomic Redis
\* command. redis.Nil (timeout, list empty) gives (nil, nil) ("nil"); any
\* other error is returned ("err"); otherwise the tail element is removed
\* and unmarshalled ("block").
PopBlockDataPeek(w, ok) ==
    IF ~ok
    THEN /\ popResult' = "err"
         /\ UNCHANGED <<queue, wblock, delivered, wpc>>
    ELSE IF queue = <<>>
    THEN /\ popResult' = "nil"
         /\ UNCHANGED <<queue, wblock, delivered, wpc>>
    ELSE LET b == UnmarshalBlock(RPopValue(queue))
         IN /\ queue' = queue
            /\ wblock' = [wblock EXCEPT ![w] = b]
            /\ delivered' = Append(delivered, b.id)
            /\ popResult' = "block"
            /\ wpc' = [wpc EXCEPT ![w] = "process"]
PopBlockData(w, ok) ==
    IF ~ok
    THEN /\ popResult' = "err"
         /\ UNCHANGED <<queue, wblock, delivered, wpc>>
    ELSE IF queue = <<>>
    THEN /\ popResult' = "nil"
         /\ UNCHANGED <<queue, wblock, delivered, wpc>>
    ELSE LET b == UnmarshalBlock(RPopValue(queue))
         IN /\ queue' = RPopRest(queue)
            /\ wblock' = [wblock EXCEPT ![w] = b]
            /\ delivered' = Append(delivered, b.id)
            /\ popResult' = "block"
            /\ wpc' = [wpc EXCEPT ![w] = "process"]

\* One turn of the loop up to the block: the context is not done at the
\* select, PopBlockData(w.ctx); on an error time.Sleep(time.Second) and
\* continue; on nil (queue empty) time.Sleep(100 * time.Millisecond) and
\* continue.
WorkerPop(w) ==
    /\ wpc[w] = "pop"
    /\ ~WorkerCtxDone(w)
    /\ \E ok \in BOOLEAN :
          /\ WorkerCall(ok)
          /\ PopBlockData(w, ok)
    /\ UNCHANGED <<lastProcessedBlock, processedBlocks, errors, pc, tick, obs,
                   nextId, ticks, cfg>>
    /\ UNCHANGED lifeVars
    /\ UNCHANGED processorVars

\* w.processBlock(blockData) has returned; the worker loops.
WorkerProcessed(w) ==
    /\ wpc[w] = "process"
    /\ wpc' = [wpc EXCEPT ![w] = "pop"]
    /\ wblock' = [wblock EXCEPT ![w] = NoBlock]
    /\ UNCHANGED <<popResult, delivered>>
    /\ UNCHANGED monVars
    /\ UNCHANGED <<cfg>>
    /\ UNCHANGED lifeVars
    /\ UNCHANGED processorVars

WorkerNext ==
    \E w \in Workers :
        \/ WorkerPop(w)
        \/ WorkerProcessed(w)

\* ------------------------------------------- BlockWorker.processBlock

\* A Redis command issued by worker w inside processBlock, with outcome ok.
\* A failure on a live context is drawn from the fault budget; once w.ctx
\* is done a command fails because of that, or completes if it was
\* already under way.
StoreCall(w, ok) ==
    /\ (~ok /\ ~WorkerCtxDone(w)) => faults < MaxFaults
    /\ faults' = IF ~ok /\ ~WorkerCtxDone(w) THEN faults + 1 ELSE faults

procFrame == <<cfg, lifeVars, poolVars, watchSet, popResult, delivered,
               lastProcessedBlock, processedBlocks, errors, pc, tick, obs,
               queue, nextId, ticks>>

\* The addresses updateAddressStats is called for: the source, then the
\* destination, each when it is in watchAddressSet.
WatchedEnds(from, to, watch) ==
    (IF from \in watch THEN <<from>> ELSE <<>>)
    \o (IF to \in watch THEN <<to>> ELSE <<>>)

\* !watchAddressSet[from] && !watchAddressSet[to], negated.
InvolvesAny(from, to, watch) == TRUE
InvolvesWatched(from, to, watch) == from \in watch \/ to \in watch

NoDecode == [res |-> "none", event |-> NoEvent, upd |-> <<>>]
DecodeError == [res |-> "error", event |-> NoEvent, upd |-> <<>>]

\* extractTRXTransfer: no watch-address filter (it is commented out), the
\* amount is divided by 1e6.
extractTRXTransfer(contract, txID, height, watch) ==
    IF ~contract.valid THEN DecodeError
    ELSE LET fromAddr == convertHexToBase58(contract.owner)
             toAddr == convertHexToBase58(contract.to)
         IN [res |-> "event",
             event |-> [source |-> fromAddr, destination |-> toAddr,
                        amount |-> Scale6(contract.amount), fee |-> 0,
                        txHash |-> txID,
                        blockHeight |-> height, tokenType |-> "TRX",
                        assetName |-> "", contractAddress |-> "",
                        isUSDT |-> FALSE],
             upd |-> WatchedEnds(fromAddr, toAddr, watch)]

\* extractTRC10Transfer: nil when neither end is watched.
extractTRC10Transfer(contract, txID, height, watch) ==
    IF ~contract.valid THEN DecodeError
    ELSE LET ownerAddress == convertHexToBase58(contract.owner)
             toAddress == convertHexToBase58(contract.to)
         IN IF ~InvolvesWatched(ownerAddress, toAddress, watch)
            THEN NoDecode
            ELSE [res |-> "event",
                  event |-> [source |-> ownerAddress,
                             destination |-> toAddress,
                             amount |-> Whole(contract.amount),
                             fee |-> 0,
                             txHash |-> txID, blockHeight |-> height,
                             tokenType |-> "TRC10",
                             assetName |-> contract.asset,
                             contractAddress |-> "", isUSDT |-> FALSE],
                  upd |-> WatchedEnds(ownerAddress, toAddress, watch)]

\* parseHexAmount: strings.TrimLeft(hexStr, "0"), "" gives 0, otherwise
\* strconv.ParseUint(hexStr, 16, 64), which fails with a range error on
\* more than 16 digits. The words used here are below 2^31 or above 2^64,
\* so float64(amount) is exact whenever the parse succeeds.
parseHexAmount(hexStr) ==
    LET parse[t \in {TrimLeftZeros(hexStr)}] ==
            IF t = <<>> THEN [ok |-> TRUE, amount |-> 0]
            ELSE IF Len(t) > uint64Digits THEN [ok |-> FALSE, amount |-> 0]
            ELSE [ok |-> TRUE, amount |-> HexValue(t)]
    IN parse[TrimLeftZeros(hexStr)]

\* len(data) < 74 || !strings.HasPrefix(data, "a9059cbb"), negated.
IsSelectorOnly(data) == HasPrefix(data, transferSelector)
IsTransferCall(data) ==
    Len(data) >= minCallLen /\ HasPrefix(data, transferSelector)

\* The hex string parseTRC20TransferData hands to convertHexToBase58 for the
\* destination word: the word without its leading zeros, padded with zeros
\* to 40 digits when it is shorter, after "41".
FullAddressHex(toAddressHex) ==
    <<4, 1>> \o PadLeft(TrimLeftZeros(toAddressHex), addrLen)

\* parseTRC20TransferData: nil when data is not a transfer call; an error
\* when the amount word is cut short or does not parse; otherwise the
\* event, the USDT amount divided by 10^decimals (decimals = 6).
parseTRC20TransferData(data, ownerAddress, contractAddress, txID, height, isUSDT) ==
    IF ~IsTransferCall(data) THEN NoDecode
    ELSE LET d1 == SubSeq(data, Len(transferSelector) + 1, Len(data))
             toAddressHex == SubSeq(d1, 1, wordLen)
             d2 == SubSeq(d1, wordLen + 1, Len(d1))
             amountHex == SubSeq(d2, 1, wordLen)
             fullAddressHex == FullAddressHex(toAddressHex)
             toAddress == convertHexToBase58(HexText(fullAddressHex))
             parsed == parseHexAmount(amountHex)
         IN IF Len(d1) < wordLen THEN DecodeError
            ELSE IF Len(d2) < wordLen THEN DecodeError
            ELSE IF ~parsed.ok THEN DecodeError
            ELSE [res |-> "event",
                  event |-> [source |-> convertHexToBase58(ownerAddress),
                             destination |-> toAddress,
                             amount |-> IF isUSDT THEN Scale6(parsed.amount)
                                        ELSE Whole(parsed.amount),
                             fee |-> 0,
                             txHash |-> txID, blockHeight |-> height,
                             tokenType |-> IF isUSDT THEN "USDT" ELSE "TRC20",
                             assetName |-> "",
                             contractAddress |-> contractAddress,
                             isUSDT |-> isUSDT],
                  upd |-> <<>>]

\* isUSDT && !w.processor.config.USDT.EnableMonitoring.
USDTNeverSkipped(isUSDT, c) == FALSE
USDTSkipped(isUSDT, c) == isUSDT /\ ~c.USDTEnableMonitoring

\* extractTRC20Transfer: nil for USDT when its monitoring is disabled; the
\* result of parseTRC20TransferData when that is nil or an error; nil when
\* neither end is watched.
extractTRC20Transfer(contract, txID, height, watch, c) ==
    IF ~contract.valid THEN DecodeError
    ELSE LET ownerAddress == convertHexToBase58(contract.owner)
             contractAddress == convertHexToBase58(contract.caddr)
             isUSDT == contractAddress = USDTContractAddress
             transfer == parseTRC20TransferData(contract.data, ownerAddress,
                                                contractAddress, txID, height,
                                                isUSDT)
         IN IF USDTSkipped(isUSDT, c) THEN NoDecode
            ELSE IF transfer.res # "event" THEN transfer
            ELSE IF ~InvolvesWatched(transfer.event.source,
                                     transfer.event.destination, watch)
            THEN NoDecode
            ELSE [transfer EXCEPT
                    !.upd = WatchedEnds(transfer.event.source,
                                        transfer.event.destination, watch)]

extractTransferFromContract(contract, txID, height, watch, c) ==
    CASE contract.type = "TransferContract" ->
           extractTRXTransfer(contract, txID, height, watch)
      [] contract.type = "TransferAssetContract" ->
           extractTRC10Transfer(contract, txID, height, watch)
      [] contract.type = "TriggerSmartContract" ->
           extractTRC20Transfer(contract, txID, height, watch, c)
      [] OTHER -> NoDecode

\* Where the worker goes next, as <<locals, position>>: the save loop after
\* the last transaction, the next transaction after the last contract.
NextSave(l) ==
    IF l.si < Len(l.transfers)
    THEN <<[l EXCEPT !.si = @ + 1], "save">>
    ELSE <<l, "count">>
\* A save loop that starts at the last collected event.
BeginSaveLast(l) ==
    IF Len(l.transfers) >= 1
    THEN <<[l EXCEPT !.si = Len(l.transfers)], "save">>
    ELSE <<l, "count">>
\* for _, transfer := range transfers, first turn.
BeginSave(l) ==
    IF Len(l.transfers) >= 1
    THEN <<[l EXCEPT !.si = 1], "save">>
    ELSE <<l, "count">>
NextTx(l, b) ==
    IF l.tx < Len(b.trans)
    THEN <<[l EXCEPT !.tx = @ + 1, !.ci = 0], "extract">>
    ELSE BeginSave(l)
NextContract(l, b) ==
    IF l.ci < Len(b.trans[l.tx].contract)
    THEN <<[l EXCEPT !.ci = @ + 1], "contract">>
    ELSE NextTx(l, b)
AfterStats(l, b) ==
    IF l.upd # <<>> THEN <<l, "statget">> ELSE NextContract(l, b)

\* `continue` after a failed extractTransfers / SaveTransferEvent.
BreakTx(l, b) == BeginSave(l)
ContinueTx(l, b) == NextTx(l, b)
ContinueSave(l) == NextSave(l)

\* The worker's position and locals become those of the pair nx.
Goto(w, nx) ==
    /\ wloc' = [wloc EXCEPT ![w] = nx[1]]
    /\ wpc' = [wpc EXCEPT ![w] = nx[2]]

\* processBlock entry: a block without Block or Trans is an error.
ProcessBlock(w) ==
    /\ wpc[w] = "process"
    /\ LET b == ChainBlock(wblock[w].height)
       IN IF ~b.hasTrans
          THEN Goto(w, <<[NoLocals EXCEPT !.err = TRUE], "count">>)
          ELSE Goto(w, NextTx(NoLocals, b))
    /\ UNCHANGED <<wblock, bpStats, wobs, kv, lists, addrInfo, faults>>
    /\ UNCHANGED procFrame

\* extractTransfers up to its loop: GetWatchAddresses (SMEMBERS); a failure
\* is returned and processBlock goes on with the next transaction.
ExtractTransfers(w) ==
    /\ wpc[w] = "extract"
    /\ LET b == ChainBlock(wblock[w].height)
           l == [wloc[w] EXCEPT !.txTried = Append(@, wloc[w].tx)]
       IN IF Len(b.trans[l.tx].contract) = 0
          THEN /\ Goto(w, NextTx(l, b))
               /\ UNCHANGED <<wobs, faults>>
          ELSE \E ok \in BOOLEAN :
                 /\ StoreCall(w, ok)
                 /\ IF ok
                    THEN /\ Goto(w, <<[l EXCEPT !.watch = watchSet,
                                                !.ci = 1], "contract">>)
                         /\ UNCHANGED wobs
                    ELSE /\ Goto(w, ContinueTx(
                                        [l EXCEPT !.txFailed = @ \cup {l.tx}],
                                        b))
                         /\ wobs' = [wobs EXCEPT !.decodeFailures = @ + 1]
    /\ UNCHANGED <<wblock, bpStats, kv, lists, addrInfo>>
    /\ UNCHANGED procFrame

\* One turn of the loop over tx.RawData.Contract: an error is logged and
\* the loop continues; an event is appended to transfers.
ExtractContract(w) ==
    /\ wpc[w] = "contract"
    /\ LET b == ChainBlock(wblock[w].height)
           l == wloc[w]
           tx == b.trans[l.tx]
       IN \E contract \in {tx.contract[l.ci]} :
          \E d \in {extractTransferFromContract(contract, tx.txID,
                                                wblock[w].height, l.watch,
                                                cfg)} :
          CASE d.res = "error" ->
                 /\ Goto(w, NextContract(l, b))
                 /\ wobs' = [wobs EXCEPT !.decodeFailures = @ + 1]
            [] d.res = "none" ->
                 /\ Goto(w, NextContract(l, b))
                 /\ UNCHANGED wobs
            [] d.res = "event" ->
                 /\ Goto(w, AfterStats(
                        [l EXCEPT !.transfers = Append(@, d.event),
                                  !.origin = Append(@, <<l.tx, l.ci>>),
                                  !.upd = d.upd], b))
                 /\ UNCHANGED wobs
    /\ UNCHANGED <<wblock, bpStats, kv, lists, addrInfo, faults>>
    /\ UNCHANGED procFrame

\* RedisClient.UpdateAddressStats, first command: GET address_info:<addr>.
\* redis.Nil gives a new record; another error is returned (and logged by
\* updateAddressStats).
UpdateStatsGet(w) ==
    /\ wpc[w] = "statget"
    /\ LET b == ChainBlock(wblock[w].height)
           l == wloc[w]
       IN \E ok \in BOOLEAN :
             /\ StoreCall(w, ok)
             /\ IF ok
                THEN Goto(w, <<[l EXCEPT !.info = addrInfo[Head(l.upd)]],
                              "statset">>)
                ELSE Goto(w, AfterStats([l EXCEPT !.upd = Tail(@)], b))
    /\ UNCHANGED <<wblock, bpStats, wobs, kv, lists, addrInfo>>
    /\ UNCHANGED procFrame

\* RedisClient.UpdateAddressStats, second command: TransferCount++ on the
\* record read before, SET address_info:<addr>.
UpdateStatsSet(w) ==
    /\ wpc[w] = "statset"
    /\ LET b == ChainBlock(wblock[w].height)
           l == wloc[w]
           addr == Head(l.upd)
       IN \E ok \in BOOLEAN :
             /\ StoreCall(w, ok)
             /\ IF ok
                THEN /\ addrInfo' = [addrInfo EXCEPT ![addr] =
                            [exists |-> TRUE,
                             transferCount |-> l.info.transferCount + 1]]
                     /\ wobs' = [wobs EXCEPT !.statUpdates[addr] = @ + 1]
                ELSE UNCHANGED <<addrInfo, wobs>>
             /\ Goto(w, AfterStats([l EXCEPT !.upd = Tail(@),
                                             !.info = NoInfo], b))
    /\ UNCHANGED <<wblock, bpStats, kv, lists>>
    /\ UNCHANGED procFrame

\* The key SaveTransferEvent stores an event under:
\* fmt.Sprintf("transfer:%s", event.TxHash).
TransferKey(event) == event.txHash

\* RedisClient.SaveTransferEvent, first command: SET transfer:<txHash>. A
\* failure is returned and processBlock goes on with the next event.
SaveTransferEvent(w) ==
    /\ wpc[w] = "save"
    /\ LET l == [wloc[w] EXCEPT
                   !.saveTried = Append(@, wloc[w].origin[wloc[w].si])]
           event == l.transfers[l.si]
       IN \E ok \in BOOLEAN :
             /\ StoreCall(w, ok)
             /\ IF ok
                THEN /\ kv' = [kv EXCEPT
                                 ![TransferKey(event)] = event]
                     /\ Goto(w, <<[l EXCEPT !.saved = @ \cup {l.si}],
                                  "savelist">>)
                     /\ UNCHANGED wobs
                ELSE /\ Goto(w, ContinueSave(l))
                     /\ wobs' = [wobs EXCEPT !.persistFailures = @ + 1]
                     /\ UNCHANGED kv
    /\ UNCHANGED <<wblock, bpStats, lists, addrInfo>>
    /\ UNCHANGED procFrame

\* RedisClient.SaveTransferEvent, the list commands, whose results are not
\* looked at: LPUSH and LTRIM 0 9999 on "transfers", and on
\* "usdt_transfers" for a USDT event; then it returns nil.
SaveTransferLists(w) ==
    /\ wpc[w] = "savelist"
    /\ LET l == wloc[w]
           event == l.transfers[l.si]
       IN \E okT, okU \in BOOLEAN :
             LET failed == (IF okT THEN 0 ELSE 1)
                           + (IF okU THEN 0 ELSE 1)
             IN /\ ~event.isUSDT => okU
                /\ ~WorkerCtxDone(w) => faults + failed <= MaxFaults
                /\ faults' = IF WorkerCtxDone(w) THEN faults
                             ELSE faults + failed
                /\ lists' =
                     [transfers |->
                        IF okT
                        THEN LTrim(LPush(lists.transfers, event), 0,
                                   transferListStop)
                        ELSE lists.transfers,
                      usdt_transfers |->
                        IF event.isUSDT /\ okU
                        THEN LTrim(LPush(lists.usdt_transfers, event), 0,
                                   transferListStop)
                        ELSE lists.usdt_transfers]
    /\ wpc' = [wpc EXCEPT ![w] = "found"]
    /\ UNCHANGED <<wblock, wloc, bpStats, wobs, kv, addrInfo>>
    /\ UNCHANGED procFrame

\* w.processor.transfersFound++: an unsynchronised load ...
FoundLoad(w) ==
    /\ wpc[w] = "found"
    /\ wloc' = [wloc EXCEPT ![w].reg = bpStats.transfersFound]
    /\ wpc' = [wpc EXCEPT ![w] = "found2"]
    /\ UNCHANGED <<wblock, bpStats, wobs, kv, lists, addrInfo, faults>>
    /\ UNCHANGED procFrame

\* ... and store of the field shared by all workers.
FoundStore(w) ==
    /\ wpc[w] = "found2"
    /\ bpStats' = [bpStats EXCEPT !.transfersFound = wloc[w].reg + 1]
    /\ wobs' = [wobs EXCEPT !.persisted = @ + 1]
    /\ Goto(w, NextSave([wloc[w] EXCEPT !.reg = 0]))
    /\ UNCHANGED <<wblock, kv, lists, addrInfo, faults>>
    /\ UNCHANGED procFrame

\* processBlocks after processBlock returned: errors++ on an error,
\* processedBlocks++ otherwise; the load ...
CountLoad(w) ==
    /\ wpc[w] = "count"
    /\ wloc' = [wloc EXCEPT ![w].reg = IF wloc[w].err THEN bpStats.errors
                                       ELSE bpStats.processedBlocks]
    /\ wpc' = [wpc EXCEPT ![w] = "count2"]
    /\ UNCHANGED <<wblock, bpStats, wobs, kv, lists, addrInfo, faults>>
    /\ UNCHANGED procFrame

\* ... and the store; the loop starts over.
CountStore(w) ==
    /\ wpc[w] = "count2"
    /\ bpStats' = IF wloc[w].err
                  THEN [bpStats EXCEPT !.errors = wloc[w].reg + 1]
                  ELSE [bpStats EXCEPT !.processedBlocks = wloc[w].reg + 1]
    /\ wloc' = [wloc EXCEPT ![w] = NoLocals]
    /\ wpc' = [wpc EXCEPT ![w] = "pop"]
    /\ wblock' = [wblock EXCEPT ![w] = NoBlock]
    /\ UNCHANGED <<wobs, kv, lists, addrInfo, faults>>
    /\ UNCHANGED procFrame

WorkNext ==
    \E w \in Workers :
        \/ WorkerPop(w)
        \/ ProcessBlock(w)
        \/ ExtractTransfers(w)
        \/ ExtractContract(w)
        \/ UpdateStatsGet(w)
        \/ UpdateStatsSet(w)
        \/ SaveTransferEvent(w)
        \/ SaveTransferLists(w)
        \/ FoundLoad(w)
        \/ FoundStore(w)
        \/ CountLoad(w)
        \/ CountStore(w)

ProcessNext == WorkNext \/ \E w \in Workers : WorkerExit(w)

\* ------------------------------------------------- watch addresses

\* Address lists a configuration file may hold, and the addresses the
\* service layer passes to the watch-address calls.
WatchLists == {<<>>, <<"TAa">>, <<"TAa", "TBb">>, <<"41aa">>,
               <<"TAa", "TShort">>}
AdmitChoices == {"TAa", "TBb", "", "41aa", "TShort", "1Btc"}

\* validateConfig, the watch-address part: the first address that is not
\* valid fails LoadConfig.
validateConfig(addresses) ==
    \A i \in 1..Len(addresses) : isValidTronAddress(addresses[i])

\* A Redis command of a watch-address call, with outcome ok.
AdmitCall(n) ==
    /\ faults + n <= MaxFaults
    /\ faults' = faults + n

admitFrame == <<running, cancelled, wg, mu, sets, hist, conv,
                lastProcessedBlock,
                processedBlocks, errors, pc, tick, obs, queue, nextId, ticks,
                workerVars, poolVars, procVars, kv, lists>>

\* Config.AddWatchAddress, called on the configuration of the started
\* application: an invalid address and an address already in the list are
\* errors; otherwise the address is appended.
ConfigAddWatchAddress(address) ==
    /\ ret.op # "none"
    /\ IF ~isValidTronAddress(address)
          \/ \E i \in 1..Len(cfg.WatchAddresses) :
                cfg.WatchAddresses[i] = address
       THEN /\ ret' = [op |-> "Config.AddWatchAddress", err |-> TRUE]
            /\ UNCHANGED cfg
       ELSE /\ cfg' = [cfg EXCEPT !.WatchAddresses = Append(@, address)]
            /\ ret' = [op |-> "Config.AddWatchAddress", err |-> FALSE]
    /\ UNCHANGED <<faults, addrInfo, watchSet>>
    /\ UNCHANGED admitFrame

\* RedisClient.AddWatchAddress: SADD watch_addresses, then SET
\* address_info:<address> with a new record; the first failing command
\* is returned.
storeAddWatchAddress(address, okAdd, okSet) ==
    /\ watchSet' = IF okAdd THEN watchSet \cup {address} ELSE watchSet
    /\ addrInfo' = IF okAdd /\ okSet
                   THEN [addrInfo EXCEPT ![address] =
                           [exists |-> TRUE, transferCount |-> 0]]
                   ELSE addrInfo

\* The REST server is up: Application.Start has run initWatchAddresses
\* without an error.
Serving == ret.op # "none" /\ ~(ret.op = "initWatchAddresses" /\ ret.err)

\* POST /addresses: the address of the request body goes to
\* RedisClient.AddWatchAddress; an error is answered with 400.
PostAddress(address) ==
    /\ Serving
    /\ \E okAdd, okSet \in BOOLEAN :
          /\ ~okAdd => okSet
          /\ AdmitCall(IF okAdd /\ okSet THEN 0 ELSE 1)
          /\ storeAddWatchAddress(address, okAdd, okSet)
          /\ ret' = [op |-> "POST /addresses", err |-> ~(okAdd /\ okSet)]
    /\ UNCHANGED cfg
    /\ UNCHANGED admitFrame

\* DELETE /addresses: RedisClient.RemoveWatchAddress: SREM, then DEL of
\* the address record (its result is not looked at).
DeleteAddress(address) ==
    /\ Serving
    /\ \E okRem, okDel \in BOOLEAN :
          /\ ~okRem => okDel
          /\ AdmitCall(IF okRem /\ okDel THEN 0 ELSE 1)
          /\ watchSet' = IF okRem THEN watchSet \ {address} ELSE watchSet
          /\ addrInfo' = IF okRem /\ okDel
                         THEN [addrInfo EXCEPT ![address] = NoInfo]
                         ELSE addrInfo
          /\ ret' = [op |-> "DELETE /addresses", err |-> ~okRem]
    /\ UNCHANGED cfg
    /\ UNCHANGED admitFrame

\* The set and the address records after AddWatchAddress has succeeded
\* for the addresses at the positions in I, taken in list order, that the
\* set did not hold.
RECURSIVE AddAll(_, _, _, _)
AddAll(addresses, I, set, info) ==
    IF addresses = <<>> THEN <<set, info>>
    ELSE LET a == Head(addresses)
             rest == [i \in 1..(Len(addresses) - 1) |-> addresses[i + 1]]
             J == {i - 1 : i \in I \ {1}}
         IN IF 1 \in I /\ a \notin set
            THEN AddAll(rest, J, set \cup {a},
                        [info EXCEPT ![a] = [exists |-> TRUE,
                                             transferCount |-> 0]])
            ELSE AddAll(rest, J, set, info)

\* Application.initWatchAddresses at start-up: GetWatchAddresses (an error
\* fails the start), then RedisClient.AddWatchAddress for every address of
\* the configuration that is not in the set yet; a failed add is logged
\* and skipped. I holds the positions whose add succeeds.
InitWatchAddresses ==
    /\ ret.op = "none"
    /\ \E ok \in BOOLEAN :
          IF ~ok
          THEN /\ AdmitCall(1)
               /\ ret' = [op |-> "initWatchAddresses", err |-> TRUE]
               /\ UNCHANGED <<watchSet, addrInfo>>
          ELSE \E I \in SUBSET (1..Len(cfg.WatchAddresses)) :
                 LET n == Cardinality({i \in 1..Len(cfg.WatchAddresses) :
                                          /\ i \notin I
                                          /\ cfg.WatchAddresses[i]
                                             \notin watchSet})
                     r == AddAll(cfg.WatchAddresses, I, watchSet, addrInfo)
                 IN /\ AdmitCall(n)
                    /\ watchSet' = r[1]
                    /\ addrInfo' = r[2]
                    /\ ret' = [op |-> "initWatchAddresses", err |-> FALSE]
    /\ UNCHANGED cfg
    /\ UNCHANGED admitFrame

AdmitNext ==
    \/ InitWatchAddresses
    \/ \E a \in AdmitChoices :
          \/ ConfigAddWatchAddress(a)
          \/ PostAddress(a)
          \/ DeleteAddress(a)

\* --------------------------------------------- convertHexToBase58 calls

\* Strings convertHexToBase58 is called with: the empty string, "0x", the
\* hex addresses of the chain (one also with "0x" in front), 41 followed
\* by twenty 00 bytes and by twenty FF bytes (upper case), a 21-byte
\* address with the prefix 00, a 22-byte string 4141.., "T", the display
\* address T9yD14Nj9j7xAB4dbGeiX9h8unkeStP68h of 41 00..00 aa, "zz" and
\* "41a".
TronAddressAa ==
    <<26, 8, 56, 12, 0, 3, 21, 42, 8, 42, 6, 55, 9, 10, 3, 36,
      34, 15, 37, 41, 30, 8, 40, 7, 52, 45, 43, 37, 25, 51, 22, 5, 7, 40>>
RawTexts ==
    {<<>>, <<ch0, chx>>, <<chT>>, TronAddressAa, <<57, 57>>, <<3, 0, 33>>}
    \cup {HexChars(HexDigits(h)) : h \in HexAddrs}
    \cup {<<ch0, chx>> \o HexChars(HexDigits("41aa")),
          HexChars(<<4, 1>> \o Zeros(addrLen)),
          <<3, 0>> \o [i \in 1..addrLen |-> 14],
          HexChars(<<0, 0>> \o AddrBody("41aa")),
          HexChars(<<4, 1>> \o HexDigits("41aa"))}
\* Checksums the double SHA-256 may give: the smallest, the largest, and
\* 7ee07572, that of 41 00..00 aa.
ChecksumAa == <<126, 224, 117, 114>>
Checksums == {<<0, 0, 0, 0>>, <<255, 255, 255, 255>>, ChecksumAa}

codecFrame == <<cfg, running, cancelled, wg, mu, ret, sets, hist, monVars,
                workerVars, processorVars>>

\* return of convertHexToBase58: the first call's result is out, the
\* second call's is again.
ConvReturn(c, text) ==
    IF c.calls = 0
    THEN [c EXCEPT !.calls = 1, !.out = text, !.pc = "none"]
    ELSE [c EXCEPT !.calls = 2, !.again = text, !.pc = "none"]

\* convertHexToBase58(arg) up to the loop of base58.Encode: "0x" is cut
\* off; the empty string and a string that starts with "T" are returned;
\* so is the string when hex.DecodeString fails; otherwise checksum (the
\* first 4 bytes of the double SHA-256, which is not computed here) is
\* appended to the decoded bytes and base58.Encode begins.
ConvEnter(c, arg, checksum) ==
    LET hexAddr == TrimPrefix0x(arg)
        dec == hexDecodeString(hexAddr)
        payload == dec.bytes \o checksum
        c1 == [c EXCEPT !.sum = checksum, !.hexAddr = hexAddr]
    IN IF IsEmptyText(hexAddr) THEN ConvReturn(c1, hexAddr)
       ELSE IF HasPrefix(hexAddr, <<chT>>) THEN ConvReturn(c1, hexAddr)
       ELSE IF ~dec.ok THEN ConvReturn(c1, hexAddr)
       ELSE [c1 EXCEPT !.pc = "encode", !.bytes = payload, !.x = payload,
                       !.answer = <<>>]

\* A call convertHexToBase58(raw).
ConvertHexToBase58(raw, checksum) ==
    /\ conv.pc = "none"
    /\ conv.calls = 0
    /\ conv' = ConvEnter([conv EXCEPT !.raw = raw], raw, checksum)
    /\ UNCHANGED codecFrame

\* A call of convertHexToBase58 on the string the first call returned.
ConvertAgain(checksum) ==
    /\ conv.pc = "none"
    /\ conv.calls = 1
    /\ conv' = ConvEnter(conv, conv.out, checksum)
    /\ UNCHANGED codecFrame

\* One turn of for x.Cmp(bigZero) > 0 { x.DivMod(x, bigRadix, mod);
\* answer = append(answer, alphabet[mod.Int64()]) }; after the loop a "1"
\* is appended for every leading zero byte and the answer is reversed.
Base58EncodeLoop ==
    /\ conv.pc = "encode"
    /\ conv' = IF IsZero(conv.x)
               THEN ConvReturn(
                        conv,
                        Reverse(conv.answer
                                \o [i \in 1..LeadingZeros(conv.bytes) |-> 0]))
               ELSE LET d == DivMod58(conv.x, Len(conv.x))
                    IN [conv EXCEPT !.x = d.q, !.answer = Append(@, d.r)]
    /\ UNCHANGED codecFrame

CodecNext ==
    \/ \E raw \in RawTexts, checksum \in Checksums :
          ConvertHexToBase58(raw, checksum)
    \/ \E checksum \in Checksums : ConvertAgain(checksum)
    \/ Base58EncodeLoop

\* ------------- BlockMonitor.ProcessHistoricalBlocks / SyncToLatestBlock

\* Ranges the service layer asks for: one longer than maxGap, an empty
\* one and a single height.
HistRanges == {<<1, maxGap + 2>>, <<3, 2>>, <<5, 5>>}

histFrame == <<cfg, running, cancelled, wg, mu, ret, conv, lastProcessedBlock,
               processedBlocks, errors, pc, tick, obs, ticks, workerVars,
               processorVars>>

\* for blockNum := startBlock; ...
EnterRange(h, startBlock, endBlock) ==
    [h EXCEPT !.pc = "select", !.blockNum = startBlock,
              !.endBlock = endBlock, !.range = <<startBlock, endBlock>>]

\* A loop that gives up at the first failed height.
HistAbort(h) == [h EXCEPT !.pc = "none", !.ret = "nil"]
\* `continue`, and the end of the loop body: on to blockNum++.
HistContinue(h) == [h EXCEPT !.pc = "select", !.blockNum = @ + 1]

\* A call of ProcessHistoricalBlocks(startBlock, endBlock).
ProcessHistoricalBlocks(startBlock, endBlock) ==
    /\ hist.pc = "none"
    /\ hist.calls < MaxBackfills
    /\ hist' = EnterRange([NoHist EXCEPT !.calls = hist.calls + 1],
                          startBlock, endBlock)
    /\ UNCHANGED <<queue, nextId, faults, sets>>
    /\ UNCHANGED histFrame

\* The loop condition, then select { case <-bm.ctx.Done(): return error;
\* default: }.
HistSelect ==
    /\ hist.pc = "select"
    /\ hist' = IF hist.blockNum > hist.endBlock
               THEN [hist EXCEPT !.pc = "none", !.ret = "nil"]
               ELSE IF cancelled
               THEN [hist EXCEPT !.pc = "none", !.ret = "interrupted"]
               ELSE [hist EXCEPT !.pc = "fetch"]
    /\ UNCHANGED <<queue, nextId, faults, sets>>
    /\ UNCHANGED histFrame

\* GetBlockByNumber(bm.ctx, blockNum); a failure is logged and skipped.
HistFetch ==
    /\ hist.pc = "fetch"
    /\ \E ok \in BOOLEAN :
          /\ NetCall(ok, TRUE)
          /\ LET h == [hist EXCEPT !.fetched = Append(@, hist.blockNum)]
             IN hist' = IF ok THEN [h EXCEPT !.pc = "push"]
                        ELSE HistContinue(
                                 [h EXCEPT !.failed = @ \cup {hist.blockNum}])
    /\ UNCHANGED <<queue, nextId, sets>>
    /\ UNCHANGED histFrame

\* PushBlockData, first command (LPUSH); a failure is logged and skipped.
HistPush ==
    /\ hist.pc = "push"
    /\ \E ok \in BOOLEAN :
          /\ NetCall(ok, FALSE)
          /\ IF ok
             THEN /\ queue' = LPush(queue,
                                    MarshalBlock([height |-> hist.blockNum,
                                                  id |-> nextId]))
                  /\ nextId' = nextId + 1
                  /\ hist' = [hist EXCEPT !.enq = Append(@, hist.blockNum),
                                          !.pc = "trim"]
             ELSE /\ UNCHANGED <<queue, nextId>>
                  /\ hist' = HistContinue(
                                 [hist EXCEPT
                                    !.failed = @ \cup {hist.blockNum}])
    /\ UNCHANGED sets
    /\ UNCHANGED histFrame

\* PushBlockData, second command (LTRIM, result not looked at).
HistTrim ==
    /\ hist.pc = "trim"
    /\ \E ok \in BOOLEAN :
          /\ NetCall(ok, FALSE)
          /\ queue' = IF ok THEN LTrim(queue, 0, QueueSize - 1) ELSE queue
    /\ hist' = HistContinue(hist)
    /\ UNCHANGED <<nextId, sets>>
    /\ UNCHANGED histFrame

\* A call of SyncToLatestBlock().
SyncToLatestBlock ==
    /\ hist.pc = "none"
    /\ hist.calls < MaxBackfills
    /\ hist' = [NoHist EXCEPT !.pc = "latest", !.sync.called = TRUE,
                              !.calls = hist.calls + 1]
    /\ UNCHANGED <<queue, nextId, faults, sets>>
    /\ UNCHANGED histFrame

\* GetLatestBlock(bm.ctx): an error is returned; otherwise nothing is done
\* when bm.lastProcessedBlock >= latestHeight, and
\* ProcessHistoricalBlocks(currentHeight + 1, latestHeight) is entered
\* when not.
SyncGetLatestBlock ==
    /\ hist.pc = "latest"
    /\ \E ok \in BOOLEAN :
          /\ NetCall(ok, TRUE)
          /\ IF ~ok
             THEN hist' = [hist EXCEPT !.pc = "none", !.ret = "error"]
             ELSE \E latestHeight \in HeadChoices :
                    LET currentHeight == lastProcessedBlock
                        h == [hist EXCEPT
                                !.sync = [called |-> TRUE, decided |-> TRUE,
                                          latestHeight |-> latestHeight,
                                          currentHeight |-> currentHeight]]
                    IN hist' = IF currentHeight >= latestHeight
                               THEN [h EXCEPT !.pc = "none", !.ret = "nil"]
                               ELSE EnterRange(h, currentHeight + 1,
                                               latestHeight)
    /\ UNCHANGED <<queue, nextId, sets>>
    /\ UNCHANGED histFrame

HistNext ==
    \/ \E r \in HistRanges : ProcessHistoricalBlocks(r[1], r[2])
    \/ HistSelect
    \/ HistFetch
    \/ HistPush
    \/ HistTrim
    \/ SyncToLatestBlock
    \/ SyncGetLatestBlock

\* ------------------------------- BlockMonitor: calls of the service layer

\* Heights the service layer passes to SetLastProcessedBlock.
SetChoices == {1, MaxHeight}

\* GetStats: reads under bm.mu.RLock(), changes nothing.
GetStats ==
    /\ mu = "free"
    /\ UNCHANGED vars

ResetStats ==
    /\ mu = "free"
    /\ sets < MaxSets
    /\ sets' = sets + 1
    /\ UNCHANGED <<hist, conv>>
    /\ processedBlocks' = 0
    /\ errors' = 0
    /\ lastProcessedBlock' = 0
    /\ UNCHANGED <<cfg, running, cancelled, wg, mu, ret, pc, tick, obs, queue,
                   nextId, ticks, faults>>
    /\ UNCHANGED workerVars
    /\ UNCHANGED processorVars

SetLastProcessedBlock(height) ==
    /\ mu = "free"
    /\ sets < MaxSets
    /\ sets' = sets + 1
    /\ UNCHANGED <<hist, conv>>
    /\ lastProcessedBlock' = height
    /\ UNCHANGED <<cfg, running, cancelled, wg, mu, ret, pc, tick, obs, queue,
                   nextId, ticks, faults, processedBlocks, errors>>
    /\ UNCHANGED workerVars
    /\ UNCHANGED processorVars

SetterNext ==
    \/ GetStats
    \/ ResetStats
    \/ \E h \in SetChoices : SetLastProcessedBlock(h)

\* ------------------------------------------------ specifications

\* The whole system.
Next == Start \/ StopBegin \/ StopReturn \/ MonitorNext \/ WorkerNext
           \/ SetterNext \/ PoolNext \/ ProcessNext \/ AdmitNext
           \/ HistNext
Spec == Init /\ [][Next]_vars

\* The polling goroutine alone, without limits and with both limits set.
\* Nothing cancels the context here, so the goroutine never leaves its loop.
NextTick == Start \/ PollNext
InitTick == cfg \in {NoLimits, BothLimits} /\ InitState
SpecTick == InitTick /\ [][NextTick]_vars

\* The polling goroutine and the workers on the shared queue.
NextQueue == Start \/ PollNext \/ WorkerNext
InitLow == cfg = LowCeiling /\ InitState
InitQueue ==
    /\ cfg = LowCeiling
    /\ InitMonitor
    /\ InitPoolStarted
    /\ InitStore
SpecQueue == InitQueue /\ [][NextQueue]_vars

\* The polling goroutine and the setters of the service layer.
NextSetters == Start \/ PollNext \/ SetterNext
SpecSetters == InitLow /\ [][NextSetters]_vars

\* The polling goroutine under Start / Stop. The goroutine is scheduled
\* (weak fairness on its steps), Go's select picks a ready case at random, so
\* the ctx.Done() case is not passed over for ever (strong fairness), and a
\* wg.Wait() that can return does.
NextLife == Start \/ StopBegin \/ StopReturn \/ MonitorNext
SpecLife ==
    /\ InitLow
    /\ [][NextLife]_vars
    /\ WF_vars(MonitorNext)
    /\ SF_vars(MonSelectDone)
    /\ WF_vars(StopReturn)

\* The worker pool under Start / Stop with one block in the queue and
\* "TCc" watched. Launchers and loops are scheduled and a Wait that can
\* return does.
NextPool == PoolNext \/ ProcessNext
InitPoolLife ==
    /\ cfg = LowCeiling
    /\ InitBlockMonitor
    /\ Enqueued(<<4>>)
    /\ InitPool
    /\ EmptyStore
    /\ watchSet = {"TCc"}
SpecPool == InitPoolLife /\ [][NextPool]_vars

\* convertHexToBase58 called on a string, then on what it returned.
SpecCodec == InitLow /\ [][CodecNext]_vars

\* Started workers (one of them, or all) processing one queued block, with
\* store failures.
WatchChoices == {{}, {"TAa"}, {"TBb", "TCc"}}
InitProcess ==
    /\ cfg = LowCeiling
    /\ InitBlockMonitor
    /\ \E h \in 1..5 : Enqueued(<<h>>)
    /\ \E S \in {{1}, Workers} : PoolStartedWith(S)
    /\ EmptyStore
    /\ watchSet \in WatchChoices
SpecProcess == InitProcess /\ [][WorkNext]_vars

\* The steps of one worker's loop goroutine.
WorkerStep(w) ==
    \/ WorkerPop(w)
    \/ ProcessBlock(w)
    \/ ExtractTransfers(w)
    \/ ExtractContract(w)
    \/ UpdateStatsGet(w)
    \/ UpdateStatsSet(w)
    \/ SaveTransferEvent(w)
    \/ SaveTransferLists(w)
    \/ FoundLoad(w)
    \/ FoundStore(w)
    \/ CountLoad(w)
    \/ CountStore(w)

\* The same, with every worker's goroutine scheduled for ever (the workers
\* are never stopped here, so each loop keeps calling PopBlockData).
SpecProcessFair ==
    /\ SpecProcess
    /\ \A w \in Workers : WF_vars(WorkerStep(w))

\* One started worker decoding one queued block of the contracts with
\* absent parameters, of the TRC20 calls or of blocks 3 and 9, with USDT
\* monitoring enabled or disabled.
DecodeHeights == {3, 6, 7, 8, 9}
InitDecode ==
    /\ cfg \in {LowCeiling, USDTOff}
    /\ InitBlockMonitor
    /\ \E h \in DecodeHeights : Enqueued(<<h>>)
    /\ PoolStartedWith({1})
    /\ EmptyStore
    /\ watchSet \in WatchChoices
SpecDecode == InitDecode /\ [][WorkNext]_vars

\* The watch-address calls on an empty store, after LoadConfig has
\* accepted the configuration file (a list validateConfig rejects ends
\* the process before anything is constructed).
InitAdmit ==
    /\ \E ws \in WatchLists :
          /\ validateConfig(ws)
          /\ cfg = [LowCeiling EXCEPT !.WatchAddresses = ws]
    /\ InitState
SpecAdmit == InitAdmit /\ [][AdmitNext]_vars

\* ProcessHistoricalBlocks and SyncToLatestBlock called on a monitor that
\* is started and stopped while its ticker does not fire, with
\* SetLastProcessedBlock moving the frontier.
NextHist ==
    \/ Start \/ StopBegin \/ MonSelectDone \/ StopReturn
    \/ \E h \in SetChoices : SetLastProcessedBlock(h)
    \/ HistNext
SpecHist == InitLow /\ [][NextHist]_vars

\* SyncToLatestBlock called between the ticks of a started monitor: the
\* call is made while the monitor waits for its ticker, and the ticker
\* fires while no call is in progress.
NextSync ==
    \/ Start
    \/ hist.pc = "none" /\ MonSelectTick
    \/ MonGetLatestBlock \/ MonCheck \/ MonRange \/ MonFetch \/ MonPush
    \/ MonTrim \/ MonWrite \/ MonReturn
    \/ pc = "select" /\ SyncToLatestBlock
    \/ SyncGetLatestBlock \/ HistSelect \/ HistFetch \/ HistPush \/ HistTrim
SpecSync == InitLow /\ [][NextSync]_vars

\* All workers processing two queued blocks, without store failures.
InitRace ==
    /\ cfg = LowCeiling
    /\ InitBlockMonitor
    /\ \E hs \in {<<1, 1>>, <<4, 5>>, <<5, 5>>} : Enqueued(hs)
    /\ InitPoolStarted
    /\ EmptyStore
    /\ watchSet = {"TAa"}
SpecRace == InitRace /\ [][WorkNext]_vars

\* The application after its start has registered the configured address
\* "TAa": the REST server answers POST /addresses and DELETE /addresses
\* for that address while one started worker processes block 1 (a
\* transfer from "TAa" and one to it). No store command fails.
InitWatch ==
    /\ cfg = [LowCeiling EXCEPT !.WatchAddresses = <<"TAa">>]
    /\ running = FALSE /\ cancelled = FALSE /\ wg = 0 /\ mu = "free"
    /\ lastProcessedBlock = 0 /\ processedBlocks = 0 /\ errors = 0
    /\ pc = "none" /\ tick = NoTick /\ obs = NoObs /\ ticks = 0
    /\ popResult = "none" /\ delivered = <<>>
    /\ sets = 0 /\ hist = NoHist /\ conv = NoConv
    /\ ret = [op |-> "initWatchAddresses", err |-> FALSE]
    /\ faults = MaxFaults
    /\ Enqueued(<<1>>)
    /\ PoolStartedWith({1})
    /\ kv = [t \in TxIDs |-> NoEvent]
    /\ lists = [transfers |-> <<>>, usdt_transfers |-> <<>>]
    /\ watchSet = {"TAa"}
    /\ addrInfo = [a \in Addresses |->
                     IF a = "TAa" THEN [exists |-> TRUE, transferCount |-> 0]
                     ELSE NoInfo]
NextWatch == PostAddress("TAa") \/ DeleteAddress("TAa") \/ WorkNext
SpecWatch == InitWatch /\ [][NextWatch]_vars

\* ------------------------------------------------------------- claims
\* A tick is judged in the state where processLatestBlock returns
\* (pc = "ret"): tick holds its locals, obs what it did, obs.pre the counters
\* at its start.

\* C1: a tick whose gap H - L exceeds 10 and whose fetches and enqueues all
\* succeed enqueues exactly H-9..H, once each and ascending, nothing at or
\* below H-10, and ends with lastProcessedBlock = H.
C1_BackfillClamp ==
    (/\ pc = "ret"
     /\ obs.accepted
     /\ tick.head - obs.L > 10
     /\ obs.failed = {})
    => /\ obs.enq = [i \in 1..10 |-> tick.head - 10 + i]
       /\ lastProcessedBlock = tick.head

\* C1 witness: a clamped tick from a frontier above 0 has completed.
C1_Witness ==
    /\ pc = "ret"
    /\ obs.accepted
    /\ obs.L > 0
    /\ tick.head - obs.L > 10
    /\ obs.failed = {}
    /\ Len(obs.enq) = 10

\* C2: a tick with 2 <= H - L <= 10 fetches every height L+1..H in ascending
\* order and enqueues exactly the heights whose fetch and enqueue both
\* succeeded; a failure at one height does not stop the later ones.
C2_UnclampedGap ==
    (/\ pc = "ret"
     /\ obs.accepted
     /\ tick.head - obs.L >= 2
     /\ tick.head - obs.L <= 10)
    => /\ obs.fetched = [i \in 1..(tick.head - obs.L) |-> obs.L + i]
       /\ obs.enq = SelectSeq(obs.fetched, LAMBDA h : h \notin obs.failed)

\* C2 witness: a height failed and a later height of the same range was
\* enqueued.
C2_Witness ==
    /\ pc = "ret"
    /\ obs.accepted
    /\ tick.head - obs.L >= 2
    /\ tick.head - obs.L <= 10
    /\ \E h \in obs.failed :
          \E i \in DOMAIN obs.enq : obs.enq[i] > h

\* C3 as stated: after every tick that accepted its head,
\* lastProcessedBlock = head.height, whatever failed.
C3_AlwaysAdvances ==
    (pc = "ret" /\ obs.accepted) => lastProcessedBlock = tick.head

\* C3 amended: after a tick that accepted its head, lastProcessedBlock =
\* head.height, except when the head block itself is pushed (no missed
\* height) and that push fails: then the tick returns an error, nothing was
\* enqueued and lastProcessedBlock keeps its value.
C3_AdvancesUnlessHeadPushFails ==
    (pc = "ret" /\ obs.accepted)
    => IF tick.direct /\ tick.head \in obs.failed
       THEN /\ tick.err
            /\ obs.enq = <<>>
            /\ lastProcessedBlock = obs.pre.lastProcessedBlock
       ELSE /\ ~tick.err
            /\ lastProcessedBlock = tick.head

\* C3 witness: in a range tick the fetch or push of the head height itself
\* failed, and the frontier advanced to it.
C3_Witness ==
    /\ pc = "ret"
    /\ obs.accepted
    /\ ~tick.direct
    /\ tick.head \in obs.failed
    /\ lastProcessedBlock = tick.head

\* C4: only ResetStats / SetLastProcessedBlock lower lastProcessedBlock; a
\* polling tick never writes a value below the one stored when it writes.
C4_OnlySettersLower ==
    [][lastProcessedBlock' < lastProcessedBlock => sets' # sets]_vars

\* C5: a tick whose head is rejected (not above the frontier, above the
\* ceiling, below the floor) fetches no block by height, enqueues nothing
\* and leaves lastProcessedBlock, processedBlocks and errors as they were.
C5_RejectedTickNoOp ==
    (/\ pc = "ret"
     /\ obs.headOk
     /\ \/ tick.head <= obs.checkL
        \/ cfg.MaxBlockHeight > 0 /\ tick.head > cfg.MaxBlockHeight
        \/ cfg.StartBlockHeight > 0 /\ tick.head < cfg.StartBlockHeight)
    => /\ obs.fetched = <<>>
       /\ obs.enq = <<>>
       /\ ~tick.err
       /\ lastProcessedBlock = obs.pre.lastProcessedBlock
       /\ processedBlocks = obs.pre.processedBlocks
       /\ errors = obs.pre.errors

\* C5 witness: a head above the frontier and under the ceiling is rejected
\* for being below the floor.
C5_Witness ==
    /\ pc = "ret"
    /\ obs.headOk
    /\ tick.head > obs.checkL
    /\ cfg.StartBlockHeight > 0
    /\ tick.head < cfg.StartBlockHeight

\* C6: after every completed PushBlockData the queue holds at most
\* QueueSize blocks.
C6_WithinCapacityAfterPush ==
    [][(pc = "trim" /\ pc' # "trim") => Len(queue') <= QueueSize]_vars

\* C7: blocks are delivered in the order they were enqueued (entry ids are
\* given in LPUSH order), each pop hands out the oldest entry still queued,
\* and a pop that reaches an empty queue returns nil, not an error.
C7_QueueFIFO ==
    /\ [](\A i, j \in DOMAIN delivered :
             i < j => delivered[i] < delivered[j])
    /\ [][delivered' # delivered =>
             /\ queue # <<>>
             /\ \A k \in DOMAIN queue :
                   delivered'[Len(delivered')] <= queue[k].id]_vars
    /\ [][(queue = <<>> /\ popResult' # popResult /\ faults' = faults)
             => popResult' = "nil"]_vars

\* C7 witness: the oldest entry was dropped by the trim and two later ones
\* were delivered.
C7_Witness ==
    /\ Len(delivered) >= 2
    /\ delivered[1] > 1

\* C8: no queue entry is delivered twice, so no two workers ever get, or
\* hold, the same entry.
C8_AtMostOneWorker ==
    /\ \A i, j \in DOMAIN delivered : i # j => delivered[i] # delivered[j]
    /\ \A w1, w2 \in Workers :
          (w1 # w2 /\ wblock[w1] # NoBlock) => wblock[w1].id # wblock[w2].id

\* C8 witness: two workers hold a block at the same time.
C8_Witness ==
    /\ wpc[1] = "process"
    /\ wpc[2] = "process"

\* C9: Start() on a running monitor fails and changes nothing, exactly one
\* polling task being alive; Stop() on a stopped monitor fails and changes
\* nothing; a successful Start() sets running, a successful Stop() clears
\* it.
C9_LifecycleErrors ==
    [][ret' # ret =>
         IF ret'.op = "Start"
         THEN IF running
              THEN /\ ret'.err
                   /\ UNCHANGED <<running, cancelled, wg, mu, pc>>
                   /\ wg' = 1
                   /\ pc' # "none"
              ELSE ~ret'.err /\ running'
         ELSE IF mu = "free"
              THEN /\ ~running
                   /\ ret'.err
                   /\ UNCHANGED <<running, cancelled, wg, mu, pc>>
              ELSE ~ret'.err /\ ~running']_vars

\* C10: Stop() returns only after the polling goroutine has exited: while
\* the monitor is stopped and no Stop() is in progress, no head is fetched,
\* no block fetched or enqueued, no counter or frontier written; and a
\* Stop() that is waiting does return.
C10_StopQuiescence ==
    /\ [][(mu = "free" /\ ~running /\ ~running')
             => UNCHANGED <<lastProcessedBlock, processedBlocks, errors, pc,
                            tick, obs, queue, nextId, ticks>>]_vars
    /\ [](mu = "free" /\ ~running => pc = "none" /\ wg = 0)
    /\ (mu = "Stop") ~> (mu = "free" /\ ret = [op |-> "Stop", err |-> FALSE])

\* C10 witness: Stop() has returned after cancelling a tick in flight (the
\* tick failed without an injected fault).
C10_Witness ==
    /\ ret = [op |-> "Stop", err |-> FALSE]
    /\ mu = "free"
    /\ ~running
    /\ errors > 0
    /\ faults = 0

\* C11: once the pool's Stop() has returned (and no Start() followed), no
\* worker has running = true and no worker loop goroutine is alive.
C11_PoolStopQuiescence ==
    (/\ bp.mu = "free"
     /\ ~bp.running
     /\ bp.ret = [op |-> "Stop", err |-> FALSE])
    => \A w \in Workers : ~wk[w].running /\ wpc[w] = "none"

\* Steps of the pool's lifecycle calls made in their target state.
StartOnRunning == bp.mu = "free" /\ bp.running /\ bp'.ret # bp.ret
StopOnStopped ==
    bp.mu = "free" /\ ~bp.running /\ bp'.ret # bp.ret /\ ~bp'.running
WorkerStartOnRunning(w) ==
    w \in launch /\ w \notin launch' /\ wk[w].running
WorkerStopOnStopped(w) ==
    bp.mu = "Stop" /\ bp.i = w /\ wk[w].mu = "free" /\ ~wk[w].running
    /\ bp'.i = w + 1
OnlyRetChanged ==
    /\ bp' = [bp EXCEPT !.ret = bp'.ret]
    /\ UNCHANGED <<launch, wk, wpc, wblock, procVars, storeVars, queue>>

\* C12 as stated: Start() on a running pool, Stop() on a stopped pool,
\* start() on a running worker and stop() on a stopped worker all succeed
\* without error and change no state.
C12_LifecycleIdempotent ==
    [][/\ (StartOnRunning \/ StopOnStopped)
          => (~bp'.ret.err /\ OnlyRetChanged)
       /\ \A w \in Workers :
            (WorkerStartOnRunning(w) \/ WorkerStopOnStopped(w))
            => (wk'[w] = wk[w] /\ wpc'[w] = wpc[w])]_vars

\* C12 amended: start() on a running worker and stop() on a stopped worker
\* return silently and leave the worker as it is; Start() on a running pool
\* and Stop() on a stopped pool change no state either, but they return an
\* error.
C12_NoOpButPoolErrors ==
    [][/\ StartOnRunning
          => (bp'.ret = [op |-> "Start", err |-> TRUE] /\ OnlyRetChanged)
       /\ StopOnStopped
          => (bp'.ret = [op |-> "Stop", err |-> TRUE] /\ OnlyRetChanged)
       /\ \A w \in Workers :
            (WorkerStartOnRunning(w) \/ WorkerStopOnStopped(w))
            => (wk'[w] = wk[w] /\ wpc'[w] = wpc[w])]_vars

\* C12 witness: Start() was refused on a pool one of whose workers, still
\* flagged running, has been handed to start() again by a second Start().
C12_Witness ==
    /\ bp.running
    /\ bp.ret = [op |-> "Start", err |-> TRUE]
    /\ \E w \in Workers : w \notin launch /\ wk[w].running /\ wpc[w] = "none"

\* What decoding contract ci of transaction t of block b yields under the
\* stored watch set.
Decoded(height, t, ci) ==
    LET tx == ChainBlock(height).trans[t]
    IN extractTransferFromContract(tx.contract[ci], tx.txID, height, watchSet,
                                   cfg)

\* C13: when a worker is through a block, whatever decode or persist
\* failures occurred, extractTransfers was called for every transaction in
\* order, every contract of every transaction whose watch-address read
\* succeeded was decoded (its event collected exactly when it yields one)
\* and SaveTransferEvent was called for every collected event. From there
\* the worker only updates a counter and calls PopBlockData again.
C13_FailureIsolation ==
    \A w \in Workers :
        (wpc[w] = "count" /\ ~wloc[w].err)
        => LET b == ChainBlock(wblock[w].height)
               l == wloc[w]
           IN /\ l.txTried = [t \in 1..Len(b.trans) |-> t]
              /\ \A t \in (1..Len(b.trans)) \ l.txFailed :
                   \A ci \in 1..Len(b.trans[t].contract) :
                      (Decoded(wblock[w].height, t, ci).res = "event")
                      <=> (\E k \in 1..Len(l.origin) : l.origin[k] = <<t, ci>>)
              /\ l.saveTried = l.origin

\* C13 witness: a worker is through a block of several transactions in which
\* a contract failed to decode, the save of one event failed and the save of
\* another event succeeded.
C13_Witness ==
    \E w \in Workers :
        /\ wpc[w] = "count"
        /\ Len(wloc[w].txTried) >= 2
        /\ wobs.decodeFailures >= 1
        /\ wobs.persistFailures >= 1
        /\ wobs.persisted >= 1

\* No worker is inside processBlock or a counter update.
WorkersIdle == \A w \in Workers : wpc[w] \in {"pop", "none"}

\* C14: once the workers are through their blocks, bp.errors has counted
\* every decode failure and every persist failure that occurred.
C14_FailuresCounted ==
    WorkersIdle
    => bpStats.errors >= wobs.decodeFailures + wobs.persistFailures

\* C15: once the workers are through their blocks, processedBlocks + errors
\* is the number of blocks dequeued and transfersFound is the number of
\* events SaveTransferEvent returned nil for.
C15_NoLostCounterUpdates ==
    WorkersIdle
    => /\ bpStats.processedBlocks + bpStats.errors = Len(delivered)
       /\ bpStats.transfersFound = wobs.persisted

\* C16: once the workers are through their blocks, each address's
\* transferCount is its initial value (0, no record) plus the number of
\* UpdateAddressStats calls completed for it.
C16_AtomicAddressStats ==
    WorkersIdle
    => \A a \in DisplayAddrs :
          addrInfo[a].transferCount = wobs.statUpdates[a]

\* No two positions of the list hold the same event.
NoDuplicates(list) ==
    \A i, j \in 1..Len(list) : i # j => list[i] # list[j]

\* C17: however often one event is saved, the keyed record and each stored
\* list hold it once.
C17_IdempotentPersistence ==
    /\ NoDuplicates(lists.transfers)
    /\ NoDuplicates(lists.usdt_transfers)

\* GetTransferEvent(txHash): the record under "transfer:<txHash>".
GetTransferEvent(txHash) == kv[txHash]

\* C18: every event that was persisted (it is in the list of transfers) is
\* what the store returns under its key: no other event of the same
\* transaction has overwritten it.
C18_KeyIncludesContractIndex ==
    \A i \in 1..Len(lists.transfers) :
        GetTransferEvent(lists.transfers[i].txHash) = lists.transfers[i]

\* The events the event store holds, under a key or in a list.
StoredEvents ==
    {kv[t] : t \in {u \in TxIDs : kv[u] # NoEvent}}
    \cup {lists.transfers[i] : i \in 1..Len(lists.transfers)}
    \cup {lists.usdt_transfers[i] : i \in 1..Len(lists.usdt_transfers)}

\* Neither end of the contract is in the stored watch set.
BothUnwatched(c) ==
    /\ convertHexToBase58(c.owner) \notin watchSet
    /\ convertHexToBase58(c.to) \notin watchSet

\* C19: a TRC10 or TRC20/USDT event is never stored unless one of its ends
\* is watched, and statistics exist only for watched addresses; when a
\* worker is through a block, no TRC10 or TRC20/USDT contract with both ends
\* unwatched has yielded an event, while every valid TRX contract (of a
\* transaction whose watch-address read succeeded) has yielded its event
\* and SaveTransferEvent was called for it, watched ends or not - and the
\* event is in the store when no store command failed.
C19_WatchFiltering ==
    /\ \A e \in StoredEvents :
          e.tokenType \in {"TRC10", "TRC20", "USDT"}
          => (e.source \in watchSet \/ e.destination \in watchSet)
    /\ \A a \in DisplayAddrs \ watchSet :
          ~addrInfo[a].exists /\ wobs.statUpdates[a] = 0
    /\ \A w \in Workers :
          (wpc[w] = "count" /\ ~wloc[w].err)
          => LET b == ChainBlock(wblock[w].height)
                 l == wloc[w]
             IN \A t \in (1..Len(b.trans)) \ l.txFailed :
                  \A ci \in 1..Len(b.trans[t].contract) :
                    LET c == b.trans[t].contract[ci]
                        at == {k \in 1..Len(l.origin) : l.origin[k] = <<t, ci>>}
                    IN /\ (/\ c.type \in {"TransferAssetContract",
                                           "TriggerSmartContract"}
                           /\ BothUnwatched(c))
                          => at = {}
                       /\ (c.type = "TransferContract" /\ c.valid)
                          => /\ Cardinality(at) = 1
                             /\ \A k \in at :
                                  /\ l.transfers[k].tokenType = "TRX"
                                  /\ l.transfers[k].txHash = b.trans[t].txID
                                  /\ l.transfers[k].source
                                       = convertHexToBase58(c.owner)
                                  /\ l.transfers[k].destination
                                       = convertHexToBase58(c.to)
                                  /\ l.saveTried[k] = <<t, ci>>
                                  /\ faults = 0
                                     => l.transfers[k] \in StoredEvents

\* C19 witness: with only "TAa" watched and no failed store command, a
\* worker is through the block whose first transaction holds TRC10, TRC20
\* and USDT transfers between unwatched addresses and whose second holds a
\* TRX transfer between unwatched addresses.
C19_Witness ==
    \E w \in Workers :
        /\ wpc[w] = "count"
        /\ wblock[w].height = 3
        /\ watchSet = {"TAa"}
        /\ faults = 0
        /\ wloc[w].origin = <<(<<2, 1>>), (<<2, 2>>)>>
        /\ Len(lists.transfers) = 2

\* Every transaction of the block holds exactly one valid TRX transfer.
AllNative(b) ==
    /\ b.hasTrans
    /\ Len(b.trans) >= 1
    /\ \A t \in 1..Len(b.trans) :
          /\ Len(b.trans[t].contract) = 1
          /\ b.trans[t].contract[1].type = "TransferContract"
          /\ b.trans[t].contract[1].valid

\* C20: when a worker finishes the only block that was queued (the store
\* was empty, no store command failed) and its k transactions hold one
\* valid TRX transfer each, the store holds exactly k events, one per
\* transaction, each of type TRX with amount = contract amount / 1_000_000
\* (5_000_000 gives 5.0), processedBlocks is 1, errors is 0 and the queue is
\* empty.
C20_EndToEnd ==
    [][\A w \in Workers :
         LET b == ChainBlock(wblock[w].height)
         IN (/\ wpc[w] = "count2"
             /\ wpc'[w] = "pop"
             /\ Len(delivered) = 1
             /\ faults = 0
             /\ AllNative(b))
            => /\ Cardinality(StoredEvents') = Len(b.trans)
               /\ Len(lists'.transfers) = Len(b.trans)
               /\ lists'.usdt_transfers = <<>>
               /\ \A t \in 1..Len(b.trans) :
                    LET c == b.trans[t].contract[1]
                        e == kv'[b.trans[t].txID]
                    IN /\ e \in StoredEvents'
                       /\ \E i \in 1..Len(lists'.transfers) :
                             lists'.transfers[i] = e
                       /\ e.tokenType = "TRX"
                       /\ e.amount.units = c.amount \div 1000000
                       /\ e.amount.micro = c.amount % 1000000
                       /\ c.amount = 5000000
                          => e.amount = [units |-> 5, micro |-> 0]
               /\ bpStats'.processedBlocks = 1
               /\ bpStats'.errors = 0
               /\ queue' = <<>>]_vars

\* C20 witness: the only started worker has finished the block of two
\* transactions, no store command failed, and the 5_000_000 transfer is
\* stored as 5.0.
C20_Witness ==
    /\ launch = Workers \ {1}
    /\ wpc[1] = "pop"
    /\ Len(delivered) = 1
    /\ faults = 0
    /\ bpStats.processedBlocks = 1
    /\ Len(lists.transfers) = 2
    /\ kv["t1"].amount = [units |-> 5, micro |-> 0]

\* An event with transaction hash t is among the events a worker has
\* decoded and collected from the block it holds.
Retained(t) ==
    \E w \in Workers :
        \E i \in 1..Len(wloc[w].transfers) : wloc[w].transfers[i].txHash = t

\* C21: every event a worker has decoded and retained from a dequeued block
\* is eventually persisted: from a state where a worker holds an event of
\* transaction t, a state is reached where transfer:<t> exists in the store.
C21_EventualPersistence ==
    \A t \in TxIDs : Retained(t) ~> (kv[t] # NoEvent)

\* The contract the k-th event collected by worker w was decoded from.
OriginContract(w, k) ==
    LET o == wloc[w].origin[k]
    IN ChainBlock(wblock[w].height).trans[o[1]].contract[o[2]]

\* C22: a contract with a required parameter absent or of the wrong type
\* yields no event: every event a worker has collected was decoded from a
\* contract all of whose parameters were present.
C22_MissingFieldNoEvent ==
    \A w \in Workers :
        \A k \in 1..Len(wloc[w].origin) : OriginContract(w, k).missing = {}

\* The contract worker w is about to decode, and whether w takes the
\* decoding step.
CurrentContract(w) ==
    ChainBlock(wblock[w].height).trans[wloc[w].tx].contract[wloc[w].ci]
DecodesContract(w) ==
    /\ wpc[w] = "contract"
    /\ <<wloc[w], wpc[w]>>' # <<wloc[w], wpc[w]>>

\* data is "a9059cbb" followed by a destination word and an amount word.
FullTransferCall(c) ==
    /\ c.type = "TriggerSmartContract"
    /\ c.valid
    /\ c.missing = {}
    /\ HasPrefix(c.data, transferSelector)
    /\ Len(c.data) = Len(transferSelector) + wordLen + wordLen
\* The two argument words of such a call, the destination being the
\* display form of the version byte 41 and the low 20 bytes of the first.
DestinationOf(c) ==
    LET word == SubSeq(c.data, Len(transferSelector) + 1,
                       Len(transferSelector) + wordLen)
    IN convertHexToBase58(
           HexText(<<4, 1>> \o SubSeq(word, wordLen - addrLen + 1, wordLen)))
AmountWordOf(c) ==
    SubSeq(c.data, Len(transferSelector) + wordLen + 1,
           Len(transferSelector) + wordLen + wordLen)

\* C23: decoding a TriggerSmartContract whose data is a full transfer call
\* (with an end in the watch set, and not a USDT call while USDT monitoring
\* is disabled) yields an event, whatever the amount word holds: its
\* destination is the display form of the destination word, its amount is
\* the amount word read as an unsigned integer, divided by 10^6 and tagged
\* USDT exactly when the contract address is the USDT contract, and tagged
\* TRC20 with the integer amount otherwise.
C23_TransferCallDecoding ==
    [][\A w \in Workers :
         (DecodesContract(w) /\ FullTransferCall(CurrentContract(w)))
         => LET c == CurrentContract(w)
                source == convertHexToBase58(c.owner)
                isUSDT == convertHexToBase58(c.caddr) = USDTContractAddress
                before == wloc[w].transfers
                after == wloc'[w].transfers
            IN (/\ InvolvesWatched(source, DestinationOf(c), wloc[w].watch)
                /\ ~(isUSDT /\ ~cfg.USDTEnableMonitoring))
               => /\ Len(after) = Len(before) + 1
                  /\ after[Len(after)].destination = DestinationOf(c)
                  /\ after[Len(after)].isUSDT = isUSDT
                  /\ after[Len(after)].tokenType
                       = (IF isUSDT THEN "USDT" ELSE "TRC20")
                  /\ after[Len(after)].amount
                       = (IF isUSDT
                          THEN [units |-> HexValue(AmountWordOf(c))
                                          \div 1000000,
                                micro |-> HexValue(AmountWordOf(c))
                                          % 1000000]
                          ELSE [units |-> HexValue(AmountWordOf(c)),
                                micro |-> 0])]_vars

\* C24: decoding a TriggerSmartContract whose data is shorter than 74 hex
\* digits or does not begin with a9059cbb collects no event, counts as no
\* decode error, leaves no address statistics to update and changes none,
\* and the worker goes on with the next contract of the transaction.
C24_UnrecognizedCallData ==
    [][\A w \in Workers :
         LET c == CurrentContract(w)
             l == wloc[w]
         IN (/\ DecodesContract(w)
             /\ c.type = "TriggerSmartContract"
             /\ c.valid
             /\ (Len(c.data) < minCallLen
                 \/ ~HasPrefix(c.data, transferSelector)))
            => /\ wloc'[w].transfers = l.transfers
               /\ wobs' = wobs
               /\ wloc'[w].upd = <<>>
               /\ addrInfo' = addrInfo
               /\ l.ci < Len(ChainBlock(wblock[w].height).trans[l.tx].contract)
                  => /\ wpc'[w] = "contract"
                     /\ wloc'[w].tx = l.tx
                     /\ wloc'[w].ci = l.ci + 1]_vars

\* C24 witness: a worker is through the block whose transaction starts with
\* four contracts of unrecognized data; the only decode error is that of
\* the cut-short amount word, and the two transfers that follow were
\* collected.
C24_Witness ==
    \E w \in Workers :
        /\ wpc[w] = "count"
        /\ wblock[w].height = 8
        /\ faults = 0
        /\ wobs.decodeFailures = 1
        /\ wloc[w].origin = <<(<<1, 6>>), (<<1, 7>>)>>

\* C25: decoding a TransferContract whose parameters are all present, with
\* the integer amount A, collects an event of type TRX with fee 0 and
\* amount A / 1_000_000 (whole units A div 10^6 and A mod 10^6 millionths),
\* whatever the watch set.
C25_NativeAmountScaling ==
    [][\A w \in Workers :
         LET c == CurrentContract(w)
             before == wloc[w].transfers
             after == wloc'[w].transfers
         IN (/\ DecodesContract(w)
             /\ c.type = "TransferContract"
             /\ c.valid
             /\ c.missing = {})
            => /\ Len(after) = Len(before) + 1
               /\ after[Len(after)].tokenType = "TRX"
               /\ after[Len(after)].fee = 0
               /\ after[Len(after)].amount.units = c.amount \div 1000000
               /\ after[Len(after)].amount.micro = c.amount % 1000000]_vars

\* C25 witness: a worker has collected the event of the TransferContract
\* of 250_000 from "TCc" to "TBb": a TRX event of 0.25 with fee 0.
C25_Witness ==
    \E w \in Workers :
        \E k \in 1..Len(wloc[w].transfers) :
            LET e == wloc[w].transfers[k]
            IN /\ OriginContract(w, k).type = "TransferContract"
               /\ OriginContract(w, k).amount = 250000
               /\ e.tokenType = "TRX"
               /\ e.fee = 0
               /\ e.amount = [units |-> 0, micro |-> 250000]

\* What decoding the contract worker w is about to decode yields when USDT
\* monitoring is enabled.
DecodedEnabled(w) ==
    extractTransferFromContract(
        CurrentContract(w),
        ChainBlock(wblock[w].height).trans[wloc[w].tx].txID,
        wblock[w].height, wloc[w].watch,
        [cfg EXCEPT !.USDTEnableMonitoring = TRUE])

\* C26: with USDT monitoring disabled, decoding a TriggerSmartContract
\* whose converted contract address is the USDT contract collects no event
\* and leaves no address statistics to update, whatever its data and the
\* watch set; decoding a TriggerSmartContract on another contract has the
\* outcome it has with monitoring enabled (the same event and statistics
\* updates, or none, or the same decode error).
C26_TrackedStablecoinSwitch ==
    [][\A w \in Workers :
         LET c == CurrentContract(w)
             isUSDT == convertHexToBase58(c.caddr) = USDTContractAddress
             d == DecodedEnabled(w)
             before == wloc[w].transfers
             after == wloc'[w].transfers
         IN (/\ DecodesContract(w)
             /\ c.type = "TriggerSmartContract"
             /\ c.valid
             /\ ~cfg.USDTEnableMonitoring)
            => /\ addrInfo' = addrInfo
               /\ IF isUSDT
                  THEN /\ after = before
                       /\ wloc'[w].upd = <<>>
                       /\ wobs' = wobs
                  ELSE /\ after = (IF d.res = "event"
                                   THEN Append(before, d.event) ELSE before)
                       /\ wloc'[w].upd = d.upd
                       /\ wobs'.decodeFailures
                            = wobs.decodeFailures
                              + (IF d.res = "error" THEN 1 ELSE 0)]_vars

\* C26 witness: with USDT monitoring disabled and both ends watched, a
\* worker is through the block of the five TRC20 calls: the USDT call in
\* second place yielded nothing, the first and the last call on the other
\* contract yielded their events.
C26_Witness ==
    \E w \in Workers :
        /\ ~cfg.USDTEnableMonitoring
        /\ wpc[w] = "count"
        /\ wblock[w].height = 7
        /\ watchSet = {"TBb", "TCc"}
        /\ wloc[w].origin = <<(<<1, 1>>), (<<1, 5>>)>>

\* The scaled amount a lies within [usdt.min_amount, usdt.max_amount].
InUSDTRange(a, c) ==
    /\ a.units >= c.USDTMinAmount
    /\ a.units < c.USDTMaxAmount \/ a = Whole(c.USDTMaxAmount)

\* C27: no USDT transfer whose scaled amount is below usdt.min_amount or
\* above usdt.max_amount is in the event store or in the USDT transfer
\* list.
C27_StablecoinAmountRange ==
    /\ \A t \in TxIDs : kv[t].isUSDT => InUSDTRange(kv[t].amount, cfg)
    /\ \A i \in 1..Len(lists.usdt_transfers) :
          InUSDTRange(lists.usdt_transfers[i].amount, cfg)

\* C28: an address that has not the display-address shape (34 characters,
\* leading "T") never becomes a member of the watch addresses, neither of
\* the configuration's list nor of the store's set, whichever call it was
\* given to.
C28_AdmissionValidation ==
    /\ \A i \in 1..Len(cfg.WatchAddresses) :
          isValidTronAddress(cfg.WatchAddresses[i])
    /\ \A a \in watchSet : isValidTronAddress(a)

\* The heights first..last in ascending order.
Ascending(first, last) ==
    [i \in 1..(IF last >= first THEN last - first + 1 ELSE 0) |->
        first + i - 1]
IsPrefix(s, t) == Len(s) <= Len(t) /\ s = SubSeq(t, 1, Len(s))
\* A ProcessHistoricalBlocks / SyncToLatestBlock call has returned.
HistReturned == hist.pc = "none" /\ hist.ret # "none"

\* C29: ProcessHistoricalBlocks(start, end) calls GetBlockByNumber for the
\* heights start..end in ascending order, however long the range; when it
\* returns nil it has done so for every height of the range and has pushed
\* exactly those whose fetch and push did not fail, in order; it returns
\* early only with the context cancelled. SyncToLatestBlock enters it
\* with the range lastProcessedBlock + 1 .. latest height, and fetches
\* nothing when lastProcessedBlock >= latest height.
C29_BackfillWithoutClamp ==
    LET full == Ascending(hist.range[1], hist.range[2])
        Kept(h) == h \notin hist.failed
    IN /\ IsPrefix(hist.fetched, full)
       /\ IsPrefix(hist.enq, SelectSeq(hist.fetched, Kept))
       /\ HistReturned =>
            /\ hist.enq = SelectSeq(hist.fetched, Kept)
            /\ hist.ret = "nil" => hist.fetched = full
            /\ hist.ret = "interrupted" => cancelled
            /\ hist.ret = "error" => hist.fetched = <<>>
       /\ hist.sync.decided =>
            IF hist.sync.currentHeight >= hist.sync.latestHeight
            THEN hist.fetched = <<>> /\ HistReturned /\ hist.ret = "nil"
            ELSE hist.range = <<hist.sync.currentHeight + 1,
                                hist.sync.latestHeight>>

\* C29 witness: ProcessHistoricalBlocks has returned nil for a range of
\* more than maxGap heights; one height failed and was skipped, the
\* others (more than maxGap) were pushed.
C29_Witness ==
    /\ HistReturned
    /\ hist.ret = "nil"
    /\ ~hist.sync.called
    /\ Cardinality(hist.failed) = 1
    /\ Len(hist.enq) > maxGap

\* <<tx, contract>> position a precedes position b in the block.
Precedes(a, b) == a[1] < b[1] \/ (a[1] = b[1] /\ a[2] < b[2])

\* C30: within one processBlock call the events are collected in the
\* order of their transactions and, within a transaction, of their
\* contracts, and SaveTransferEvent is called for them in that order:
\* the persist calls made so far are those of a leading part of the
\* collected events, so that of two events the one with the earlier
\* (transaction, contract) position has its persist call first.
C30_IntraBlockOrdering ==
    \A w \in Workers :
        LET o == wloc[w].origin
            s == wloc[w].saveTried
        IN /\ \A i, j \in 1..Len(o) : i < j => Precedes(o[i], o[j])
           /\ IsPrefix(s, o)
           /\ \A i, j \in 1..Len(s) : i < j => Precedes(s[i], s[j])

\* C30 witness: a worker has made the persist calls of a block with
\* events in two transactions and two events in one transaction, the
\* first of them failing.
C30_Witness ==
    \E w \in Workers :
        LET s == wloc[w].saveTried
        IN /\ wpc[w] = "count"
           /\ s = wloc[w].origin
           /\ wobs.persistFailures >= 1
           /\ \E i, j, k \in 1..Len(s) :
                 /\ i < j /\ j < k
                 /\ s[i][1] < s[j][1]
                 /\ s[j][1] = s[k][1]

\* A display address: 34 characters of the base58 alphabet, the first "T".
IsDisplayText(s) ==
    /\ Len(s) = tronAddressLen
    /\ s[1] = chT
    /\ \A i \in 1..Len(s) : s[i] \in 0..(base58Radix - 1)
\* A raw hex address with the network prefix byte: 21 bytes in hex, the
\* first 41 (with or without "0x" in front).
IsPrefixedHex(s) ==
    LET dec == hexDecodeString(TrimPrefix0x(s))
    IN /\ dec.ok
       /\ Len(dec.bytes) = addrLen \div 2 + 1
       /\ dec.bytes[1] = 4 * 16 + 1

\* C31: convertHexToBase58 returns the empty string and a string in
\* display-address form unchanged; and for a raw hex address with the
\* network prefix byte, converting the converted string again returns it
\* unchanged.
C31_CodecIdempotence ==
    /\ (conv.calls >= 1 /\ (conv.raw = <<>> \/ IsDisplayText(conv.raw)))
          => conv.out = conv.raw
    /\ (conv.calls = 2 /\ IsPrefixedHex(conv.raw))
          => (IsDisplayText(conv.out) /\ conv.again = conv.out)

\* C31 witness: 41 00..00 aa was converted, with its checksum 7ee07572, to
\* T9yD14Nj9j7xAB4dbGeiX9h8unkeStP68h, and that string converted again.
C31_Witness ==
    /\ conv.calls = 2
    /\ conv.raw = HexChars(HexDigits("41aa"))
    /\ conv.sum = ChecksumAa
    /\ conv.out = TronAddressAa
    /\ conv.again = TronAddressAa

\* C32: when GetLatestBlock fails in a polling tick, the tick fetches no
\* block by height and enqueues nothing, lastProcessedBlock stays what it
\* was before the tick, errors becomes one more than before the tick, the
\* monitor is still running and its goroutine is back at the select, where
\* the next ticker firing is taken.
C32_HeadFailureNoOpTick ==
    [][(pc = "ret" /\ ~obs.headOk /\ pc' # pc)
       => /\ tick.err
          /\ obs.fetched = <<>>
          /\ obs.enq = <<>>
          /\ queue' = queue
          /\ lastProcessedBlock' = obs.pre.lastProcessedBlock
          /\ errors' = obs.pre.errors + 1
          /\ running /\ running'
          /\ pc' = "select"]_vars

\* C32 witness: the tick after one whose GetLatestBlock failed has begun:
\* one error is counted, nothing was enqueued.
C32_Witness ==
    /\ pc = "head"
    /\ ticks = 2
    /\ errors = 1
    /\ faults = 1
    /\ running
    /\ queue = <<>>
    /\ lastProcessedBlock = 0

\* C33: whenever the monitor reports running = true, with its goroutine
\* at the select and ticker firings still to come, a polling tick is
\* eventually performed (GetLatestBlock is called) unless the monitor is
\* stopped first; such a state is the one after Stop() and a successful
\* Start() on the same instance.
C33_RestartResumes ==
    (running /\ pc = "select" /\ ticks < MaxTicks)
        ~> (~running \/ pc = "head")

\* The destination word of a transfer call.
DestinationWordOf(c) ==
    SubSeq(c.data, Len(transferSelector) + 1, Len(transferSelector) + wordLen)

\* C34: for every 32-byte destination word of a recognized transfer call,
\* words with non-zero high 12 bytes included, the hex string the decoder
\* hands to the address codec spells exactly 21 bytes: 41 followed by the
\* low 20 bytes of the word.
C34_DestinationWidth ==
    [][\A w \in Workers :
         (DecodesContract(w) /\ FullTransferCall(CurrentContract(w)))
         => LET word == DestinationWordOf(CurrentContract(w))
            IN /\ Len(FullAddressHex(word)) = addrLen + 2
               /\ FullAddressHex(word)
                    = <<4, 1>> \o SubSeq(word, wordLen - addrLen + 1, wordLen)
      ]_vars

\* data begins with "a9059cbb" and has at least 74 digits, but fewer than
\* the selector and two argument words take.
TruncatedTransferCall(c) ==
    /\ c.type = "TriggerSmartContract"
    /\ c.valid
    /\ HasPrefix(c.data, transferSelector)
    /\ Len(c.data) >= minCallLen
    /\ Len(c.data) < Len(transferSelector) + wordLen + wordLen

\* C35: decoding a TriggerSmartContract whose data begins with a9059cbb and
\* has at least 74 but fewer than 136 hex digits returns no event and no
\* error: the worker collects no event and logs no decode failure.
C35_TruncatedArguments ==
    [][\A w \in Workers :
         (DecodesContract(w) /\ TruncatedTransferCall(CurrentContract(w)))
         => /\ extractTransferFromContract(
                   CurrentContract(w),
                   ChainBlock(wblock[w].height).trans[wloc[w].tx].txID,
                   wblock[w].height, wloc[w].watch, cfg).res = "none"
            /\ wloc'[w].transfers = wloc[w].transfers
            /\ wobs'.decodeFailures = wobs.decodeFailures]_vars

\* The events worker w collected from its block that have the address a as
\* source or destination, and those of them SaveTransferEvent stored.
EventsTouching(w, a) ==
    {i \in 1..Len(wloc[w].transfers) :
        a \in {wloc[w].transfers[i].source, wloc[w].transfers[i].destination}}
StoredTouching(w, a) == EventsTouching(w, a) \cap wloc[w].saved

\* C36: a worker has made every statistics update of an event before it
\* stores the event, and when it has gone through the events of a block
\* processed on an empty store, the transferCount of every watched address
\* is the number of stored events that have the address as source or
\* destination: one for each stored event, none for an event that was not
\* stored.
C36_StatsTrackStoredEvents ==
    \A w \in Workers :
        /\ wpc[w] \in {"save", "savelist"} => wloc[w].upd = <<>>
        /\ (wpc[w] = "count" /\ ~wloc[w].err)
           => \A a \in watchSet :
                 addrInfo[a].transferCount
                   = Cardinality(StoredTouching(w, a))

\* C37: with a floor configured (StartBlockHeight > 0), a polling tick
\* calls GetBlockByNumber for no height below the floor and pushes no block
\* below the floor onto the queue, also when its backfill range starts
\* below the floor.
C37_FloorRespected ==
    cfg.StartBlockHeight > 0
    => /\ \A i \in 1..Len(obs.fetched) :
             obs.fetched[i] >= cfg.StartBlockHeight
       /\ \A i \in 1..Len(queue) : queue[i].height >= cfg.StartBlockHeight

\* The heights of a sequence of heights or of queued blocks, and whether
\* one of them occurs twice.
HeightSet(hs) == {hs[i] : i \in 1..Len(hs)}
NoHeightTwice(hs) == \A i, j \in 1..Len(hs) : hs[i] = hs[j] => i = j
QueuedHeights == [i \in 1..Len(queue) |-> queue[i].height]

\* C38: without a call of SetLastProcessedBlock or ResetStats, no height is
\* enqueued twice by polling ticks and calls of SyncToLatestBlock or
\* ProcessHistoricalBlocks: the queue holds no height twice, and a tick
\* enqueues no height the call has enqueued (after SyncToLatestBlock has
\* enqueued the heights up to H, a tick that sees the head H enqueues
\* nothing).
C38_NoDuplicateEnqueue ==
    /\ NoHeightTwice(QueuedHeights)
    /\ NoHeightTwice(hist.enq)
    /\ NoHeightTwice(obs.enq)
    /\ HeightSet(hist.enq) \cap HeightSet(obs.enq) = {}

\* The block worker w has popped carries no transactions list.
HoldsEmptyBlock(w) == ~ChainBlock(wblock[w].height).hasTrans

\* C39: a dequeued block that carries no transactions list yields no
\* event, and when the worker counts it processedBlocks goes up by 1 and
\* the error counter stays as it is.
C39_EmptyBlockProcessed ==
    [][\A w \in Workers :
         (HoldsEmptyBlock(w) /\ wpc[w] = "count2" /\ wpc'[w] # "count2")
         => /\ wloc[w].transfers = <<>>
            /\ bpStats'.processedBlocks = bpStats.processedBlocks + 1
            /\ bpStats'.errors = bpStats.errors]_vars

\* C40: the record of an address that stays watched changes only by a
\* worker's update, which adds 1 to its transferCount (registering the
\* address again leaves the record as it is), and an address that is not
\* watched, because it was removed, has no record, whatever workers that
\* took the watch set before the removal do afterwards.
C40_WatchAddressRecords ==
    [][\A a \in DisplayAddrs :
         /\ (a \in watchSet /\ a \in watchSet' /\ addrInfo'[a] # addrInfo[a])
            => /\ addrInfo'[a].exists
               /\ addrInfo'[a].transferCount = addrInfo[a].transferCount + 1
         /\ a \notin watchSet' => ~addrInfo'[a].exists]_vars
====
